---- MODULE Spec2Model ----
(***************************************************************************)
(* A model of the course-schedule core: the CSV parser (parseCourseCsv),   *)
(* the conflict detector (hasTimeConflict), the filter predicate           *)
(* (meetsFilterCriteria), the backtracking search with its result          *)
(* assembly (generateNonConflictingSchedules), and the schedule context    *)
(* (ScheduleProvider) with the handlers of ConfigView that write it.       *)
(*                                                                         *)
(* A JavaScript string is a sequence of one-character strings, so that     *)
(* split, trim, the regular expressions and Number are computed and not    *)
(* assumed.  null is the empty sequence and a present value v is <<v>>.    *)
(***************************************************************************)
EXTENDS Naturals, Integers, Sequences, FiniteSets, TLC

VARIABLES
    \* hasTimeConflict called on two sections, in both argument orders
    section1, section2, conflictChecked, conflict12, conflict21,
    \* parseCourseCsv: its argument, its locals and its result
    csvContent, parsePc, lines, lineIndex, crnSet, parsedCourses, result,
    \* generateNonConflictingSchedules: its arguments, its locals and its result
    allSections, selectedCourseIds, filters, genPc, sectionsByCourse, courseIds,
    currentCombination, callStack, combinations, scheduleResult,
    \* meetsFilterCriteria called on its own: its arguments and its return value
    filterCall, filterReturn,
    \* ScheduleProvider: its two pieces of state
    scheduleResults, currentCombinationIndex

conflictVars == <<section1, section2, conflictChecked, conflict12, conflict21>>
parseVars == <<csvContent, parsePc, lines, lineIndex, crnSet, parsedCourses, result>>
genVars == <<allSections, selectedCourseIds, filters, genPc, sectionsByCourse, courseIds,
             currentCombination, callStack, combinations, scheduleResult>>
filterVars == <<filterCall, filterReturn>>
scheduleVars == <<scheduleResults, currentCombinationIndex>>
vars == <<conflictVars, parseVars, genVars, filterVars, scheduleVars>>

----------------------------------------------------------------------------
(* Strings *)

DigitChars == <<"0","1","2","3","4","5","6","7","8","9">>

IsDigit(c) == \E i \in 1..Len(DigitChars) : DigitChars[i] = c

DigitValue(c) == (CHOOSE i \in 1..Len(DigitChars) : DigitChars[i] = c) - 1

\* Number(s) of a string of decimal digits (Number("") is 0 in JavaScript).
RECURSIVE Number(_)
Number(s) ==
    IF s = <<>> THEN 0
    ELSE Number(SubSeq(s, 1, Len(s) - 1)) * 10 + DigitValue(s[Len(s)])

\* s.split(sep) for a one-character separator: never empty, "" gives [""].
RECURSIVE split(_, _)
split(s, sep) ==
    IF \A i \in 1..Len(s) : s[i] # sep THEN <<s>>
    ELSE LET k == CHOOSE i \in 1..Len(s) :
                      s[i] = sep /\ \A j \in 1..(i - 1) : s[j] # sep
         IN  <<SubSeq(s, 1, k - 1)>> \o split(SubSeq(s, k + 1, Len(s)), sep)

IsSpace(c) == c \in {" ", "\t", "\r", "\n"}

\* s.trim(): white space removed at both ends.
trim(s) ==
    IF \A i \in 1..Len(s) : IsSpace(s[i]) THEN <<>>
    ELSE LET first == CHOOSE i \in 1..Len(s) :
                          ~IsSpace(s[i]) /\ \A j \in 1..(i - 1) : IsSpace(s[j])
             last == CHOOSE i \in 1..Len(s) :
                         ~IsSpace(s[i]) /\ \A j \in (i + 1)..Len(s) : IsSpace(s[j])
         IN  SubSeq(s, first, last)

\* parts.join(sep)
RECURSIVE join(_, _)
join(parts, sep) ==
    IF parts = <<>> THEN <<>>
    ELSE IF Len(parts) = 1 THEN parts[1]
    ELSE parts[1] \o <<sep>> \o join(Tail(parts), sep)

Max(a, b) == IF a >= b THEN a ELSE b
Min(a, b) == IF a <= b THEN a ELSE b

Range(f) == {f[i] : i \in DOMAIN f}

\* The literal strings of the source.
Monday == <<"M","o","n","d","a","y">>
Tuesday == <<"T","u","e","s","d","a","y">>
Wednesday == <<"W","e","d","n","e","s","d","a","y">>
Thursday == <<"T","h","u","r","s","d","a","y">>
Friday == <<"F","r","i","d","a","y">>
Saturday == <<"S","a","t","u","r","d","a","y">>
Sunday == <<"S","u","n","d","a","y">>
Online == <<"O","n","l","i","n","e">>
InPerson == <<"I","n","-","p","e","r","s","o","n">>

----------------------------------------------------------------------------
(* csvParser: the validation helpers and the section record *)

\* /^([01]\d|2[0-3]):[0-5]\d$/ : one HH:MM clock time.
IsClock(t) ==
    /\ Len(t) = 5
    /\ \/ t[1] \in {"0", "1"} /\ IsDigit(t[2])
       \/ t[1] = "2" /\ t[2] \in {"0", "1", "2", "3"}
    /\ t[3] = ":"
    /\ t[4] \in {"0", "1", "2", "3", "4", "5"}
    /\ IsDigit(t[5])

\* Mutant: the pattern is tested but the end is not compared with the start.
isValidTimeFormatPatternOnly(time) ==
    /\ Len(time) = 11
    /\ IsClock(SubSeq(time, 1, 5))
    /\ time[6] = "-"
    /\ IsClock(SubSeq(time, 7, 11))

isValidTimeFormat(time) ==
    /\ Len(time) = 11
    /\ IsClock(SubSeq(time, 1, 5))
    /\ time[6] = "-"
    /\ IsClock(SubSeq(time, 7, 11))
    /\ LET se == split(time, "-")
           start == split(se[1], ":")
           end == split(se[2], ":")
           startMinutes == Number(start[1]) * 60 + Number(start[2])
           endMinutes == Number(end[1]) * 60 + Number(end[2])
       IN  endMinutes > startMinutes

validDays == <<Monday, Tuesday, Wednesday, Thursday, Friday, Saturday, Sunday>>

isValidDay(day) == \E i \in 1..Len(validDays) : validDays[i] = day

isValidMeetingType(type) == type = Online \/ type = InPerson

parseTimeString(timeString) ==
    LET se == split(timeString, "-")
    IN  [startTime |-> se[1], endTime |-> se[2]]

\* The CourseSection the parser builds from the ten fields of a row.
CourseSectionOf(fields) ==
    [courseName |-> fields[1],
     subject |-> fields[2],
     courseCode |-> fields[3],
     crn |-> fields[10],
     meetings |-> <<[day |-> fields[4], time |-> parseTimeString(fields[5]),
                     type |-> fields[6]],
                    [day |-> fields[7], time |-> parseTimeString(fields[8]),
                     type |-> fields[9]]>>]

----------------------------------------------------------------------------
(* csvParser: parseCourseCsv *)

expectedHeader ==
    join(<<<<"C","o","u","r","s","e","N","a","m","e">>,
           <<"S","u","b","j","e","c","t">>,
           <<"C","o","u","r","s","e","C","o","d","e">>,
           <<"F","i","r","s","t","M","e","e","t","i","n","g","D","a","y">>,
           <<"F","i","r","s","t","M","e","e","t","i","n","g","T","i","m","e">>,
           <<"F","i","r","s","t","M","e","e","t","i","n","g","T","y","p","e">>,
           <<"S","e","c","o","n","d","M","e","e","t","i","n","g","D","a","y">>,
           <<"S","e","c","o","n","d","M","e","e","t","i","n","g","T","i","m","e">>,
           <<"S","e","c","o","n","d","M","e","e","t","i","n","g","T","y","p","e">>,
           <<"C","R","N">>>>, ",")

\* csvContent.split('\n').map(line => line.trim()).filter(line => line.length > 0)
RECURSIVE TrimmedNonEmpty(_)
TrimmedNonEmpty(rawLines) ==
    IF rawLines = <<>> THEN <<>>
    ELSE (IF trim(rawLines[1]) # <<>> THEN <<trim(rawLines[1])>> ELSE <<>>)
             \o TrimmedNonEmpty(Tail(rawLines))

SplitLines(content) == TrimmedNonEmpty(split(content, "\n"))

\* /^\d{n}$/.test(s)
IsDigits(s, n) == Len(s) = n /\ \A i \in 1..Len(s) : IsDigit(s[i])

\* The error a row gives: the message of the first check it fails, with the
\* value the message ends with; the message "" when every check passes.
RowError(fields, seenCrns) ==
    LET courseName == fields[1]
        subject == fields[2]
        courseCode == fields[3]
        firstDay == fields[4]
        firstTime == fields[5]
        firstType == fields[6]
        secondDay == fields[7]
        secondTime == fields[8]
        secondType == fields[9]
        crn == fields[10]
        Error(message, value) == [message |-> message, value |-> value]
    IN  IF Len(fields) # 10 THEN Error("Invalid number of fields", <<>>)
        ELSE IF courseName = <<>> \/ subject = <<>> \/ courseCode = <<>> \/ crn = <<>>
        THEN Error("Missing required fields", <<>>)
        ELSE IF crn \in seenCrns THEN Error("Duplicate CRN", crn)
        ELSE IF ~IsDigits(crn, 5) THEN Error("Invalid CRN format", crn)
        ELSE IF ~IsDigits(courseCode, 3) THEN Error("Invalid course code format", courseCode)
        ELSE IF ~isValidDay(firstDay) THEN Error("Invalid first meeting day", firstDay)
        ELSE IF ~isValidDay(secondDay) THEN Error("Invalid second meeting day", secondDay)
        ELSE IF ~isValidTimeFormat(firstTime)
        THEN Error("Invalid first meeting time format", firstTime)
        ELSE IF ~isValidTimeFormat(secondTime)
        THEN Error("Invalid second meeting time format", secondTime)
        ELSE IF ~isValidMeetingType(firstType)
        THEN Error("Invalid first meeting type", firstType)
        ELSE IF ~isValidMeetingType(secondType)
        THEN Error("Invalid second meeting type", secondType)
        ELSE Error("", <<>>)

\* Mutant: the CRN is added to crnSet only when the whole row is valid.
CrnAddedWhenRowValid(fields, seenCrns) == RowError(fields, seenCrns).message = ""

\* Whether the row reaches crnSet.add(crn): it has ten fields, its required
\* fields, and a CRN that is new and of five digits.
CrnAdded(fields, seenCrns) ==
    /\ Len(fields) = 10
    /\ fields[1] # <<>> /\ fields[2] # <<>> /\ fields[3] # <<>> /\ fields[10] # <<>>
    /\ fields[10] \notin seenCrns
    /\ IsDigits(fields[10], 5)

\* header === expectedHeader, where header = lines[0] is undefined when there
\* is no line.
HeaderMatches(nonEmpty) == nonEmpty # <<>> /\ nonEmpty[1] = expectedHeader

\* Mutant: after a header mismatch the rows are parsed all the same.
HeaderMismatchGoesOn ==
    /\ parsePc = "ready"
    /\ LET nonEmpty == SplitLines(csvContent)
       IN  /\ ~HeaderMatches(nonEmpty)
           /\ lines' = nonEmpty
    /\ result' = [result EXCEPT !.errors = Append(@, [line |-> 0,
                                    message |-> "Invalid CSV header format",
                                    value |-> <<>>]),
                                !.isValid = FALSE]
    /\ lineIndex' = 1
    /\ parsePc' = "rows"
    /\ UNCHANGED <<csvContent, crnSet, parsedCourses, conflictVars, genVars, filterVars, scheduleVars>>

\* The header differs: one error, and parseCourseCsv returns at once.
HeaderMismatch ==
    /\ parsePc = "ready"
    /\ LET nonEmpty == SplitLines(csvContent)
       IN  /\ ~HeaderMatches(nonEmpty)
           /\ lines' = nonEmpty
    /\ result' = [result EXCEPT !.errors = Append(@, [line |-> 0,
                                    message |-> "Invalid CSV header format",
                                    value |-> <<>>]),
                                !.isValid = FALSE]
    /\ parsePc' = "done"
    /\ UNCHANGED <<csvContent, lineIndex, crnSet, parsedCourses, conflictVars, genVars, filterVars, scheduleVars>>

\* The header is the expected one: the loop over the rows starts at i = 1.
HeaderAccepted ==
    /\ parsePc = "ready"
    /\ LET nonEmpty == SplitLines(csvContent)
       IN  /\ HeaderMatches(nonEmpty)
           /\ lines' = nonEmpty
    /\ parsedCourses' = <<>>
    /\ crnSet' = {}
    /\ lineIndex' = 1
    /\ parsePc' = "rows"
    /\ UNCHANGED <<csvContent, result, conflictVars, genVars, filterVars, scheduleVars>>

\* Mutant: the first failing row ends the loop (break where the source has
\* continue).
ParseRowStopsAtError ==
    /\ parsePc = "rows"
    /\ lineIndex < Len(lines)
    /\ LET lineNumber == lineIndex + 1
           fields == split(lines[lineIndex + 1], ",")
           error == RowError(fields, crnSet)
       IN  /\ crnSet' = IF CrnAdded(fields, crnSet) THEN crnSet \cup {fields[10]} ELSE crnSet
           /\ IF error.message # ""
              THEN /\ result' = [result EXCEPT !.errors =
                                    Append(@, [line |-> lineNumber,
                                               message |-> error.message,
                                               value |-> error.value])]
                   /\ lineIndex' = Len(lines)
                   /\ UNCHANGED parsedCourses
              ELSE /\ parsedCourses' = Append(parsedCourses, CourseSectionOf(fields))
                   /\ lineIndex' = lineIndex + 1
                   /\ UNCHANGED result
    /\ UNCHANGED <<csvContent, parsePc, lines, conflictVars, genVars, filterVars, scheduleVars>>

\* One turn of the loop: the row lines[i], of line number i + 1.
ParseRow ==
    /\ parsePc = "rows"
    /\ lineIndex < Len(lines)
    /\ LET lineNumber == lineIndex + 1
           fields == split(lines[lineIndex + 1], ",")
           error == RowError(fields, crnSet)
       IN  /\ crnSet' = IF CrnAdded(fields, crnSet) THEN crnSet \cup {fields[10]} ELSE crnSet
           /\ IF error.message # ""
              THEN /\ result' = [result EXCEPT !.errors =
                                    Append(@, [line |-> lineNumber,
                                               message |-> error.message,
                                               value |-> error.value])]
                   /\ UNCHANGED parsedCourses
              ELSE /\ parsedCourses' = Append(parsedCourses, CourseSectionOf(fields))
                   /\ UNCHANGED result
    /\ lineIndex' = lineIndex + 1
    /\ UNCHANGED <<csvContent, parsePc, lines, conflictVars, genVars, filterVars, scheduleVars>>

\* Mutant: the sections of the valid rows are returned even when a row failed.
ParseFinishPartialData ==
    /\ parsePc = "rows"
    /\ lineIndex >= Len(lines)
    /\ result' = [result EXCEPT !.isValid = (result.errors = <<>>),
                                !.data = <<parsedCourses>>]
    /\ parsePc' = "done"
    /\ UNCHANGED <<csvContent, lines, lineIndex, crnSet, parsedCourses,
                   conflictVars, genVars, filterVars, scheduleVars>>

\* After the loop: isValid and data are set and the result is returned.
ParseFinish ==
    /\ parsePc = "rows"
    /\ lineIndex >= Len(lines)
    /\ result' = [result EXCEPT !.isValid = (result.errors = <<>>),
                                !.data = IF result.errors = <<>>
                                         THEN <<parsedCourses>> ELSE <<>>]
    /\ parsePc' = "done"
    /\ UNCHANGED <<csvContent, lines, lineIndex, crnSet, parsedCourses,
                   conflictVars, genVars, filterVars, scheduleVars>>

----------------------------------------------------------------------------
(* csvParser: hasTimeConflict *)

\* Minutes since midnight of an HH:MM string, as the source computes them:
\* time.split(':').map(Number), then hours * 60 + minutes.
timeToMinutes(time) ==
    LET hm == split(time, ":")
    IN  Number(hm[1]) * 60 + Number(hm[2])

\* Mutant: the overlap test with <= (closed intervals).
MeetingsOverlapClosed(meeting1, meeting2) ==
    /\ meeting1.day = meeting2.day
    /\ Max(timeToMinutes(meeting1.time.startTime), timeToMinutes(meeting2.time.startTime))
           <= Min(timeToMinutes(meeting1.time.endTime), timeToMinutes(meeting2.time.endTime))

\* Mutant: only one side of the overlap test (meeting1 starts before meeting2 ends).
MeetingsOverlapOneSided(meeting1, meeting2) ==
    /\ meeting1.day = meeting2.day
    /\ timeToMinutes(meeting1.time.startTime) < timeToMinutes(meeting2.time.endTime)

\* Mutant: the overlap test off by one minute.
MeetingsOverlapOffByOne(meeting1, meeting2) ==
    /\ meeting1.day = meeting2.day
    /\ Max(timeToMinutes(meeting1.time.startTime), timeToMinutes(meeting2.time.startTime)) + 1
           < Min(timeToMinutes(meeting1.time.endTime), timeToMinutes(meeting2.time.endTime))

\* The body of the inner loop: the day test, the four times in minutes and
\* the overlap test.
MeetingsOverlap(meeting1, meeting2) ==
    /\ meeting1.day = meeting2.day
    /\ LET s1 == split(meeting1.time.startTime, ":")
           e1 == split(meeting1.time.endTime, ":")
           s2 == split(meeting2.time.startTime, ":")
           e2 == split(meeting2.time.endTime, ":")
           startTime1 == Number(s1[1]) * 60 + Number(s1[2])
           endTime1 == Number(e1[1]) * 60 + Number(e1[2])
           startTime2 == Number(s2[1]) * 60 + Number(s2[2])
           endTime2 == Number(e2[1]) * 60 + Number(e2[2])
       IN  Max(startTime1, startTime2) < Min(endTime1, endTime2)

\* The two nested for-of loops from meeting i of section1 and meeting j of
\* section2 on: true at the first overlapping pair, false when both end.
RECURSIVE ConflictFrom(_, _, _, _)
ConflictFrom(sec1, sec2, i, j) ==
    IF i > Len(sec1.meetings) THEN FALSE
    ELSE IF j > Len(sec2.meetings) THEN ConflictFrom(sec1, sec2, i + 1, 1)
    ELSE IF MeetingsOverlap(sec1.meetings[i], sec2.meetings[j]) THEN TRUE
    ELSE ConflictFrom(sec1, sec2, i, j + 1)

hasTimeConflict(sec1, sec2) == ConflictFrom(sec1, sec2, 1, 1)

----------------------------------------------------------------------------
(* scheduleGenerator: the filter predicate *)

\* timeRanges of types/filters.ts, in hours.
timeRanges(timeOfDay) ==
    CASE timeOfDay = "morning" -> [start |-> 8, end |-> 12]
      [] timeOfDay = "afternoon" -> [start |-> 12, end |-> 17]
      [] timeOfDay = "evening" -> [start |-> 17, end |-> 21]

isInTimeRange(time, range) ==
    LET minutes == timeToMinutes(time)
    IN  minutes >= range.start * 60 /\ minutes < range.end * 60

\* The gap from one meeting's end to the next one's start.  The source divides
\* by 60 and compares with 2 and 1 hours; the model keeps minutes and compares
\* with 120 and 60.
getGapBetweenMeetings(end, start) == timeToMinutes(start) - timeToMinutes(end)

\* Mutant: the meetings of a day are left in the order of the combination.
sortMeetingsKeepsOrder(meetings) == meetings

\* meetings.sort by start time: Array.prototype.sort is stable, so meetings
\* with equal start keep their order.  Insertion after the last element that
\* does not start later.
RECURSIVE sortMeetings(_)
sortMeetings(meetings) ==
    IF meetings = <<>> THEN <<>>
    ELSE LET front == sortMeetings(SubSeq(meetings, 1, Len(meetings) - 1))
             m == meetings[Len(meetings)]
             keep == {i \in 1..Len(front) :
                         timeToMinutes(front[i].start) <= timeToMinutes(m.start)}
             k == Cardinality(keep)
         IN  SubSeq(front, 1, k) \o <<m>> \o SubSeq(front, k + 1, Len(front))

\* combination.flatMap(section => section.meetings): all meetings in order.
RECURSIVE AllMeetings(_)
AllMeetings(combination) ==
    IF combination = <<>> THEN <<>>
    ELSE combination[1].meetings \o AllMeetings(Tail(combination))

getActiveDays(combination) == {m.day : m \in Range(AllMeetings(combination))}

\* Mutant: 'oneDay' and 'twoDays' ask for at least that many days off.
DaysOffAtLeast(combination, f) ==
    \/ f.daysOff = "any"
    \/ LET totalActiveDays == Cardinality(getActiveDays(combination))
           weekdays == Len(<<Monday, Tuesday, Wednesday, Thursday, Friday>>)
           daysOff == weekdays - totalActiveDays
       IN  /\ ~(f.daysOff = "oneDay" /\ daysOff < 1)
           /\ ~(f.daysOff = "twoDays" /\ daysOff < 2)

DaysOffCheck(combination, f) ==
    \/ f.daysOff = "any"
    \/ LET totalActiveDays == Cardinality(getActiveDays(combination))
           weekdays == Len(<<Monday, Tuesday, Wednesday, Thursday, Friday>>)
           daysOff == weekdays - totalActiveDays
       IN  /\ ~(f.daysOff = "oneDay" /\ daysOff # 1)
           /\ ~(f.daysOff = "twoDays" /\ daysOff # 2)

\* Mutant: 'online' and 'inPerson' ask for more than half of the meetings.
DeliveryModeStrictMajority(combination, f) ==
    \/ f.deliveryMode = "any"
    \/ LET meetingTypes == [i \in 1..Len(AllMeetings(combination)) |->
                                AllMeetings(combination)[i].type]
           IsOnline(t) == t = Online
           IsInPerson(t) == t = InPerson
           onlineMeetingsCount == Len(SelectSeq(meetingTypes, IsOnline))
           inPersonMeetingsCount == Len(SelectSeq(meetingTypes, IsInPerson))
           hasOnline == onlineMeetingsCount > 0
           hasInPerson == inPersonMeetingsCount > 0
       IN  CASE f.deliveryMode = "online" ->
                    2 * onlineMeetingsCount > Len(meetingTypes)
             [] f.deliveryMode = "inPerson" ->
                    2 * inPersonMeetingsCount > Len(meetingTypes)
             [] f.deliveryMode = "hybrid" -> ~(~hasOnline \/ ~hasInPerson)

DeliveryModeCheck(combination, f) ==
    \/ f.deliveryMode = "any"
    \/ LET meetingTypes == [i \in 1..Len(AllMeetings(combination)) |->
                                AllMeetings(combination)[i].type]
           IsOnline(t) == t = Online
           IsInPerson(t) == t = InPerson
           onlineMeetingsCount == Len(SelectSeq(meetingTypes, IsOnline))
           inPersonMeetingsCount == Len(SelectSeq(meetingTypes, IsInPerson))
           hasOnline == onlineMeetingsCount > 0
           hasInPerson == inPersonMeetingsCount > 0
       IN  CASE f.deliveryMode = "online" ->
                    ~(2 * onlineMeetingsCount < Len(meetingTypes))
             [] f.deliveryMode = "inPerson" ->
                    ~(2 * inPersonMeetingsCount < Len(meetingTypes))
             [] f.deliveryMode = "hybrid" -> ~(~hasOnline \/ ~hasInPerson)

TimeOfDayCheck(combination, f) ==
    \/ f.timeOfDay = "any"
    \/ LET range == timeRanges(f.timeOfDay)
           InRange(m) == isInTimeRange(m.time.startTime, range)
           meetingsInRange == Len(SelectSeq(AllMeetings(combination), InRange))
           totalMeetings == Len(AllMeetings(combination))
       IN  ~(2 * meetingsInRange < totalMeetings)

\* meetingsByDay.get(day): the {start, end} of the day's meetings, in order.
RECURSIVE MeetingsOn(_, _)
MeetingsOn(meetings, day) ==
    IF meetings = <<>> THEN <<>>
    ELSE (IF meetings[1].day = day
          THEN <<[start |-> meetings[1].time.startTime,
                  end |-> meetings[1].time.endTime]>>
          ELSE <<>>) \o MeetingsOn(Tail(meetings), day)

\* isValidDay of the compactness loop, for the sorted meetings of one day.
CompactDayValid(sortedMeetings, f) ==
    \A i \in 2..Len(sortedMeetings) :
        LET gap == getGapBetweenMeetings(sortedMeetings[i - 1].end, sortedMeetings[i].start)
        IN  /\ ~(f.scheduleCompactness = "compact" /\ gap > 120)
            /\ ~(f.scheduleCompactness = "spread" /\ gap < 60)

CompactnessCheck(combination, f) ==
    \/ f.scheduleCompactness = "any"
    \/ LET all == AllMeetings(combination)
           multiDays == {d \in getActiveDays(combination) : Len(MeetingsOn(all, d)) >= 2}
           totalDaysWithMultipleMeetings == Cardinality(multiDays)
           validDayCount ==
               Cardinality({d \in multiDays :
                               CompactDayValid(sortMeetings(MeetingsOn(all, d)), f)})
       IN  ~(totalDaysWithMultipleMeetings > 0
               /\ 2 * validDayCount < totalDaysWithMultipleMeetings)

\* Mutant: the preferences are applied whether or not the filters are enabled.
meetsFilterIgnoringEnabled(combination, f) ==
    /\ DaysOffCheck(combination, f)
    /\ DeliveryModeCheck(combination, f)
    /\ TimeOfDayCheck(combination, f)
    /\ CompactnessCheck(combination, f)

meetsFilterCriteria(combination, f) ==
    \/ ~f.isEnabled
    \/ /\ DaysOffCheck(combination, f)
       /\ DeliveryModeCheck(combination, f)
       /\ TimeOfDayCheck(combination, f)
       /\ CompactnessCheck(combination, f)

----------------------------------------------------------------------------
(* scheduleGenerator: the search and the result *)

\* `${section.subject}${section.courseCode}`
CourseIdOf(section) == section.subject \o section.courseCode

\* Mutant: only the section pushed last is tested.
hasConflictWithLastOnly(section, currentSections) ==
    /\ currentSections # <<>>
    /\ hasTimeConflict(section, currentSections[Len(currentSections)])

hasConflictWithCombination(section, currentSections) ==
    \E i \in 1..Len(currentSections) : hasTimeConflict(section, currentSections[i])

\* The Map from course id to its sections, as the sequence of its entries
\* [courseId, sections] in the order the keys were first set.
RECURSIVE groupSectionsByCourse(_)
groupSectionsByCourse(sections) ==
    IF sections = <<>> THEN <<>>
    ELSE LET grouped == groupSectionsByCourse(SubSeq(sections, 1, Len(sections) - 1))
             section == sections[Len(sections)]
             courseId == CourseIdOf(section)
         IN  IF \E k \in 1..Len(grouped) : grouped[k].courseId = courseId
             THEN [k \in 1..Len(grouped) |->
                      IF grouped[k].courseId = courseId
                      THEN [grouped[k] EXCEPT !.sections = Append(@, section)]
                      ELSE grouped[k]]
             ELSE Append(grouped, [courseId |-> courseId, sections |-> <<section>>])

\* Mutant: the sections are not filtered by the selected courses.
AllSectionsSelected(sections, selected) == sections

\* allSections.filter(section => selectedCourseIds.has(courseId of section))
RECURSIVE SelectedSections(_, _)
SelectedSections(sections, selected) ==
    IF sections = <<>> THEN <<>>
    ELSE (IF CourseIdOf(sections[1]) \in selected THEN <<sections[1]>> ELSE <<>>)
             \o SelectedSections(Tail(sections), selected)

\* sectionsByCourse.get(courseId) || []
CourseSections(grouped, courseId) ==
    IF \E k \in 1..Len(grouped) : grouped[k].courseId = courseId
    THEN grouped[CHOOSE k \in 1..Len(grouped) : grouped[k].courseId = courseId].sections
    ELSE <<>>

\* A call of buildCombinations(currentCombination, courseIndex) in progress:
\* its courseIndex (from 0), the position of its for-of loop, its addedSection
\* and where it stands: in its body, or waiting for the call it made after a
\* push ("called") or for the call that skips the course ("skipped").
NewCall(courseIndex) ==
    [courseIndex |-> courseIndex, sectionIndex |-> 1, addedSection |-> FALSE,
     pc |-> "body"]

TopCall == callStack[Len(callStack)]

ReplaceTop(call) == [callStack EXCEPT ![Len(callStack)] = call]

PopCall == SubSeq(callStack, 1, Len(callStack) - 1)

TopCourseSections == CourseSections(sectionsByCourse, courseIds[TopCall.courseIndex + 1])

\* generateNonConflictingSchedules up to the first call buildCombinations([], 0)
GenerateStart ==
    /\ genPc = "ready"
    /\ LET selectedSections == SelectedSections(allSections, selectedCourseIds)
           grouped == groupSectionsByCourse(selectedSections)
       IN  /\ sectionsByCourse' = grouped
           /\ courseIds' = [k \in 1..Len(grouped) |-> grouped[k].courseId]
    /\ combinations' = <<>>
    /\ currentCombination' = <<>>
    /\ callStack' = <<NewCall(0)>>
    /\ genPc' = "search"
    /\ UNCHANGED <<allSections, selectedCourseIds, filters, scheduleResult,
                   conflictVars, parseVars, filterVars, scheduleVars>>

\* Mutant: the base case records only a combination that holds a section.
BaseCaseSkipsEmpty ==
    /\ genPc = "search" /\ callStack # <<>>
    /\ TopCall.pc = "body"
    /\ TopCall.courseIndex = Len(courseIds)
    /\ combinations' =
           IF currentCombination # <<>> /\ meetsFilterCriteria(currentCombination, filters)
           THEN Append(combinations, [sections |-> currentCombination,
                                      courseCount |-> Len(currentCombination)])
           ELSE combinations
    /\ callStack' = PopCall
    /\ UNCHANGED <<allSections, selectedCourseIds, filters, genPc, sectionsByCourse,
                   courseIds, currentCombination, scheduleResult, conflictVars, parseVars, filterVars, scheduleVars>>

\* The base case: every course was considered.
BaseCase ==
    /\ genPc = "search" /\ callStack # <<>>
    /\ TopCall.pc = "body"
    /\ TopCall.courseIndex = Len(courseIds)
    /\ combinations' =
           IF meetsFilterCriteria(currentCombination, filters)
           THEN Append(combinations, [sections |-> currentCombination,
                                      courseCount |-> Len(currentCombination)])
           ELSE combinations
    /\ callStack' = PopCall
    /\ UNCHANGED <<allSections, selectedCourseIds, filters, genPc, sectionsByCourse,
                   courseIds, currentCombination, scheduleResult, conflictVars, parseVars, filterVars, scheduleVars>>

\* The loop takes a section that conflicts with none chosen: push and recurse.
AddSection ==
    /\ genPc = "search" /\ callStack # <<>>
    /\ TopCall.pc = "body"
    /\ TopCall.courseIndex < Len(courseIds)
    /\ TopCall.sectionIndex <= Len(TopCourseSections)
    /\ LET section == TopCourseSections[TopCall.sectionIndex]
       IN  /\ ~hasConflictWithCombination(section, currentCombination)
           /\ currentCombination' = Append(currentCombination, section)
    /\ callStack' = Append(ReplaceTop([TopCall EXCEPT !.pc = "called"]),
                           NewCall(TopCall.courseIndex + 1))
    /\ UNCHANGED <<allSections, selectedCourseIds, filters, genPc, sectionsByCourse,
                   courseIds, combinations, scheduleResult, conflictVars, parseVars, filterVars, scheduleVars>>

\* Mutant: the loop does not move on from a section that conflicts.
RejectSectionStaysPut ==
    /\ genPc = "search" /\ callStack # <<>>
    /\ TopCall.pc = "body"
    /\ TopCall.courseIndex < Len(courseIds)
    /\ TopCall.sectionIndex <= Len(TopCourseSections)
    /\ hasConflictWithCombination(TopCourseSections[TopCall.sectionIndex],
                                  currentCombination)
    /\ UNCHANGED vars

\* The loop passes over a section that conflicts with one chosen.
RejectSection ==
    /\ genPc = "search" /\ callStack # <<>>
    /\ TopCall.pc = "body"
    /\ TopCall.courseIndex < Len(courseIds)
    /\ TopCall.sectionIndex <= Len(TopCourseSections)
    /\ hasConflictWithCombination(TopCourseSections[TopCall.sectionIndex],
                                  currentCombination)
    /\ callStack' = ReplaceTop([TopCall EXCEPT !.sectionIndex = @ + 1])
    /\ UNCHANGED <<allSections, selectedCourseIds, filters, genPc, sectionsByCourse,
                   courseIds, currentCombination, combinations, scheduleResult,
                   conflictVars, parseVars, filterVars, scheduleVars>>

\* Mutant: after the recursive call the section is left in the combination.
BacktrackWithoutPop ==
    /\ genPc = "search" /\ callStack # <<>>
    /\ TopCall.pc = "called"
    /\ callStack' = ReplaceTop([TopCall EXCEPT !.pc = "body", !.addedSection = TRUE,
                                               !.sectionIndex = @ + 1])
    /\ UNCHANGED <<allSections, selectedCourseIds, filters, genPc, sectionsByCourse,
                   courseIds, currentCombination, combinations, scheduleResult,
                   conflictVars, parseVars, filterVars, scheduleVars>>

\* Mutant: the recorded combinations hold the working array itself, so the pop
\* shortens each of them.
BacktrackPopsRecorded ==
    /\ genPc = "search" /\ callStack # <<>>
    /\ TopCall.pc = "called"
    /\ currentCombination' = SubSeq(currentCombination, 1, Len(currentCombination) - 1)
    /\ combinations' = [k \in 1..Len(combinations) |->
                            [combinations[k] EXCEPT !.sections = currentCombination']]
    /\ callStack' = ReplaceTop([TopCall EXCEPT !.pc = "body", !.addedSection = TRUE,
                                               !.sectionIndex = @ + 1])
    /\ UNCHANGED <<allSections, selectedCourseIds, filters, genPc, sectionsByCourse,
                   courseIds, scheduleResult, conflictVars, parseVars, filterVars, scheduleVars>>

\* Mutant: the loop does not note that it added a section.
BacktrackLeavesAddedUnset ==
    /\ genPc = "search" /\ callStack # <<>>
    /\ TopCall.pc = "called"
    /\ currentCombination' = SubSeq(currentCombination, 1, Len(currentCombination) - 1)
    /\ callStack' = ReplaceTop([TopCall EXCEPT !.pc = "body", !.sectionIndex = @ + 1])
    /\ UNCHANGED <<allSections, selectedCourseIds, filters, genPc, sectionsByCourse,
                   courseIds, combinations, scheduleResult,
                   conflictVars, parseVars, filterVars, scheduleVars>>

\* The recursive call has returned: pop, addedSection = true, next section.
Backtrack ==
    /\ genPc = "search" /\ callStack # <<>>
    /\ TopCall.pc = "called"
    /\ currentCombination' = SubSeq(currentCombination, 1, Len(currentCombination) - 1)
    /\ callStack' = ReplaceTop([TopCall EXCEPT !.pc = "body", !.addedSection = TRUE,
                                               !.sectionIndex = @ + 1])
    /\ UNCHANGED <<allSections, selectedCourseIds, filters, genPc, sectionsByCourse,
                   courseIds, combinations, scheduleResult, conflictVars, parseVars, filterVars, scheduleVars>>

\* Mutant: the branch that skips the course is explored whether or not a
\* section of the course was added.
SkipCourseEvenWhenAdded ==
    /\ genPc = "search" /\ callStack # <<>>
    /\ TopCall.pc = "body"
    /\ TopCall.courseIndex < Len(courseIds)
    /\ TopCall.sectionIndex > Len(TopCourseSections)
    /\ callStack' = Append(ReplaceTop([TopCall EXCEPT !.pc = "skipped"]),
                           NewCall(TopCall.courseIndex + 1))
    /\ UNCHANGED <<allSections, selectedCourseIds, filters, genPc, sectionsByCourse,
                   courseIds, currentCombination, combinations, scheduleResult,
                   conflictVars, parseVars, filterVars, scheduleVars>>

\* Mutant: a course none of whose sections fits ends the branch.
SkipCourseDiscardsBranch ==
    /\ genPc = "search" /\ callStack # <<>>
    /\ TopCall.pc = "body"
    /\ TopCall.courseIndex < Len(courseIds)
    /\ TopCall.sectionIndex > Len(TopCourseSections)
    /\ ~TopCall.addedSection
    /\ callStack' = PopCall
    /\ UNCHANGED <<allSections, selectedCourseIds, filters, genPc, sectionsByCourse,
                   courseIds, currentCombination, combinations, scheduleResult,
                   conflictVars, parseVars, filterVars, scheduleVars>>

\* No section of the course was added: recurse with the combination unchanged.
SkipCourse ==
    /\ genPc = "search" /\ callStack # <<>>
    /\ TopCall.pc = "body"
    /\ TopCall.courseIndex < Len(courseIds)
    /\ TopCall.sectionIndex > Len(TopCourseSections)
    /\ ~TopCall.addedSection
    /\ callStack' = Append(ReplaceTop([TopCall EXCEPT !.pc = "skipped"]),
                           NewCall(TopCall.courseIndex + 1))
    /\ UNCHANGED <<allSections, selectedCourseIds, filters, genPc, sectionsByCourse,
                   courseIds, currentCombination, combinations, scheduleResult,
                   conflictVars, parseVars, filterVars, scheduleVars>>

\* The end of the body of buildCombinations: the call returns.
ReturnCall ==
    /\ genPc = "search" /\ callStack # <<>>
    /\ \/ TopCall.pc = "skipped"
       \/ /\ TopCall.pc = "body"
          /\ TopCall.courseIndex < Len(courseIds)
          /\ TopCall.sectionIndex > Len(TopCourseSections)
          /\ TopCall.addedSection
    /\ callStack' = PopCall
    /\ UNCHANGED <<allSections, selectedCourseIds, filters, genPc, sectionsByCourse,
                   courseIds, currentCombination, combinations, scheduleResult,
                   conflictVars, parseVars, filterVars, scheduleVars>>

\* Mutant: the comparator sorts by courseCount ascending.
ComparesNegativeAscending(a, b) ==
    IF b.courseCount # a.courseCount
    THEN {a.courseCount - b.courseCount < 0}
    ELSE {TRUE, FALSE}

\* Whether the comparator (a, b) => ... returns a negative number: decided by
\* the courseCounts when they differ, and by Math.random() - 0.5 when not.
ComparesNegative(a, b) ==
    IF b.courseCount # a.courseCount
    THEN {b.courseCount - a.courseCount < 0}
    ELSE {TRUE, FALSE}

\* Array.prototype.sort with that comparator, which is not a consistent one:
\* the engine's binary insertion sort (the sort it runs on short arrays), every
\* comparison between equal courseCounts going either way.  The positions
\* (counted from 0) at which the binary search between left and right may put
\* pivot into sorted.
RECURSIVE InsertPositions(_, _, _, _)
InsertPositions(sorted, pivot, left, right) ==
    IF left >= right THEN {left}
    ELSE LET mid == left + ((right - left) \div 2)
         IN  UNION {IF negative
                    THEN InsertPositions(sorted, pivot, left, mid)
                    ELSE InsertPositions(sorted, pivot, mid + 1, right) :
                        negative \in ComparesNegative(pivot, sorted[mid + 1])}

\* The arrays the sort may leave, sorted holding the elements placed so far.
RECURSIVE SortOutcomes(_, _)
SortOutcomes(sorted, rest) ==
    IF rest = <<>> THEN {sorted}
    ELSE UNION {SortOutcomes(SubSeq(sorted, 1, pos) \o <<rest[1]>>
                                 \o SubSeq(sorted, pos + 1, Len(sorted)),
                             Tail(rest)) :
                    pos \in InsertPositions(sorted, rest[1], 0, Len(sorted))}

\* The search is over: sort the combinations and return the result.
SortAndReturn ==
    /\ genPc = "search" /\ callStack = <<>>
    /\ \E sorted \in SortOutcomes(<<>>, combinations) :
           /\ combinations' = sorted
           /\ scheduleResult' =
                  <<[combinations |-> sorted,
                     stats |-> [totalCombinations |-> Len(sorted),
                                coursesIncluded |-> courseIds]]>>
    /\ genPc' = "done"
    /\ UNCHANGED <<allSections, selectedCourseIds, filters, sectionsByCourse, courseIds,
                   currentCombination, callStack, conflictVars, parseVars, filterVars, scheduleVars>>

----------------------------------------------------------------------------
(* Inputs: clock times, rows and sections the parser accepts *)

TwoDigits(n) == <<DigitChars[(n \div 10) + 1], DigitChars[(n % 10) + 1]>>

\* The HH:MM string of minute n of the day.
ClockOf(n) == TwoDigits(n \div 60) \o <<":">> \o TwoDigits(n % 60)

\* The HH:MM-HH:MM field of the meeting from minute s to minute e.
TimeField(s, e) == ClockOf(s) \o <<"-">> \o ClockOf(e)

Web == <<"W","e","b">>
CPRG == <<"C","P","R","G">>
MATH == <<"M","A","T","H">>
Code305 == <<"3","0","5">>
Code201 == <<"2","0","1">>
Crn30922 == <<"3","0","9","2","2">>
Crn30923 == <<"3","0","9","2","3">>

\* The row checks of parseCourseCsv that a row of ten fields must pass, apart
\* from the uniqueness of its CRN.
RowFieldsValid(fields) ==
    /\ Len(fields) = 10
    /\ fields[1] # <<>> /\ fields[2] # <<>> /\ fields[3] # <<>> /\ fields[10] # <<>>
    /\ Len(fields[10]) = 5 /\ \A i \in 1..5 : IsDigit(fields[10][i])
    /\ Len(fields[3]) = 3 /\ \A i \in 1..3 : IsDigit(fields[3][i])
    /\ isValidDay(fields[4]) /\ isValidDay(fields[7])
    /\ isValidTimeFormat(fields[5]) /\ isValidTimeFormat(fields[8])
    /\ isValidMeetingType(fields[6]) /\ isValidMeetingType(fields[9])

----------------------------------------------------------------------------
(* hasTimeConflict on two sections *)

\* The meeting times of the conflict checks start at 09:59 and span
\* MaxSpan minutes, so they cross the hour and meet minute to minute.
MaxSpan == 3

ConflictMinutes == {9 * 60 + 59 + k : k \in 0..MaxSpan}

ConflictTimes == {TimeField(s, e) : s \in ConflictMinutes, e \in ConflictMinutes}

\* The first meeting is on either day, the second on Tuesday: every pair of
\* meeting positions can be the first one to overlap.
ConflictDays == {Monday, Tuesday}

ConflictSections(crn) ==
    {CourseSectionOf(f) :
        f \in {g \in {<<Web, CPRG, Code305, d1, t1, Online, Tuesday, t2, InPerson, crn>> :
                         d1 \in ConflictDays, t1 \in ConflictTimes, t2 \in ConflictTimes} :
                  RowFieldsValid(g)}}

ConflictIdle ==
    /\ section1 = CourseSectionOf(<<Web, CPRG, Code305, Monday, TimeField(0, 1), Online,
                                    Monday, TimeField(0, 1), Online, Crn30922>>)
    /\ section2 = section1
    /\ conflictChecked = FALSE
    /\ conflict12 = FALSE
    /\ conflict21 = FALSE

\* hasTimeConflict(section1, section2) and hasTimeConflict(section2, section1)
CheckConflict ==
    /\ ~conflictChecked
    /\ parsePc = "idle" /\ genPc = "idle"
    /\ conflictChecked' = TRUE
    /\ conflict12' = hasTimeConflict(section1, section2)
    /\ conflict21' = hasTimeConflict(section2, section1)
    /\ UNCHANGED <<section1, section2, parseVars, genVars, filterVars, scheduleVars>>

----------------------------------------------------------------------------
(* Idle states of the parser and of the generator *)

defaultFilters ==
    [isEnabled |-> FALSE, deliveryMode |-> "any", timeOfDay |-> "any",
     scheduleCompactness |-> "any", daysOff |-> "any"]

ParseIdle ==
    /\ csvContent = <<>>
    /\ parsePc = "idle"
    /\ lines = <<>>
    /\ lineIndex = 0
    /\ crnSet = {}
    /\ parsedCourses = <<>>
    /\ result = [isValid |-> TRUE, errors |-> <<>>, data |-> <<>>]

GenIdle ==
    /\ allSections = <<>>
    /\ selectedCourseIds = {}
    /\ filters = defaultFilters
    /\ genPc = "idle"
    /\ sectionsByCourse = <<>>
    /\ courseIds = <<>>
    /\ currentCombination = <<>>
    /\ callStack = <<>>
    /\ combinations = <<>>
    /\ scheduleResult = <<>>

FilterIdle ==
    /\ filterCall = [combination |-> <<>>, filters |-> defaultFilters]
    /\ filterReturn = <<>>

\* The state of ScheduleProvider when it is mounted.
ScheduleIdle ==
    /\ scheduleResults = <<>>
    /\ currentCombinationIndex = 0

----------------------------------------------------------------------------
(* The specification of the conflict detector *)

InitConflict ==
    /\ section1 \in ConflictSections(Crn30922)
    /\ section2 \in ConflictSections(Crn30923)
    /\ conflictChecked = FALSE
    /\ conflict12 = FALSE
    /\ conflict21 = FALSE
    /\ ParseIdle
    /\ GenIdle
    /\ FilterIdle
    /\ ScheduleIdle

NextConflict == CheckConflict

SpecConflict == InitConflict /\ [][NextConflict]_vars

----------------------------------------------------------------------------
(* The specification of the schedule generator *)

COMM == <<"C","O","M","M">>
Code238 == <<"2","3","8">>
Crn30924 == <<"3","0","9","2","4">>
Crn30925 == <<"3","0","9","2","5">>
Crn30926 == <<"3","0","9","2","6">>

\* Rows of three courses.  The two sections of CPRG 305 do not conflict; the
\* first section of MATH 201 meets Monday 09:00-10:00 as the first section of
\* CPRG 305 does; the section of COMM 238 begins on Monday when those two end
\* and overlaps the second section of CPRG 305 on Tuesday; the second section
\* of MATH 201 overlaps the first section of CPRG 305 on Wednesday, and its
\* own two meetings overlap each other (the parser compares no two meetings).
SectionRows ==
    {<<Web, CPRG, Code305, Monday, TimeField(9 * 60, 10 * 60), Online,
       Wednesday, TimeField(9 * 60, 10 * 60), InPerson, Crn30922>>,
     <<Web, CPRG, Code305, Tuesday, TimeField(13 * 60, 14 * 60 + 50), InPerson,
       Thursday, TimeField(13 * 60, 14 * 60 + 50), InPerson, Crn30923>>,
     <<Web, MATH, Code201, Monday, TimeField(9 * 60, 10 * 60), InPerson,
       Friday, TimeField(17 * 60, 18 * 60), Online, Crn30924>>,
     <<Web, COMM, Code238, Monday, TimeField(10 * 60, 11 * 60), Online,
       Tuesday, TimeField(14 * 60, 15 * 60), Online, Crn30925>>,
     <<Web, MATH, Code201, Wednesday, TimeField(9 * 60 + 30, 10 * 60 + 30), Online,
       Wednesday, TimeField(10 * 60, 12 * 60), InPerson, Crn30926>>}

SectionPool == {CourseSectionOf(f) : f \in {g \in SectionRows : RowFieldsValid(g)}}

CourseIdPool == {CourseIdOf(sec) : sec \in SectionPool}

\* The sections of one upload: at most MaxSections sections of the pool, in any
\* order, each CRN once (the parser rejects a repeated CRN).
MaxSections == 4

RECURSIVE SectionLists(_)
SectionLists(n) ==
    IF n = 0 THEN {<<>>}
    ELSE SectionLists(n - 1)
             \cup {Append(l, sec) : l \in {x \in SectionLists(n - 1) : Len(x) = n - 1},
                                    sec \in SectionPool}

DistinctCrns(l) == \A i, j \in 1..Len(l) : i # j => l[i].crn # l[j].crn

\* The filters of a request: any setting of isEnabled, and at most one of the
\* four preferences set.
FilterPool ==
    {f \in [isEnabled : BOOLEAN,
            deliveryMode : {"any", "online", "inPerson", "hybrid"},
            timeOfDay : {"any", "morning", "afternoon", "evening"},
            scheduleCompactness : {"any", "compact", "spread"},
            daysOff : {"any", "oneDay", "twoDays"}] :
        Cardinality({k \in {"deliveryMode", "timeOfDay", "scheduleCompactness", "daysOff"} :
                        f[k] # "any"}) <= 1}

Init ==
    /\ allSections \in {l \in SectionLists(MaxSections) : DistinctCrns(l)}
    /\ selectedCourseIds \in SUBSET CourseIdPool
    /\ filters \in FilterPool
    /\ genPc = "ready"
    /\ sectionsByCourse = <<>>
    /\ courseIds = <<>>
    /\ currentCombination = <<>>
    /\ callStack = <<>>
    /\ combinations = <<>>
    /\ scheduleResult = <<>>
    /\ ConflictIdle
    /\ ParseIdle
    /\ FilterIdle
    /\ ScheduleIdle

Next ==
    \/ GenerateStart
    \/ BaseCase
    \/ AddSection
    \/ RejectSection
    \/ Backtrack
    \/ SkipCourse
    \/ ReturnCall
    \/ SortAndReturn

Spec == Init /\ [][Next]_vars

\* The inputs of the runs followed to their end: shorter lists of the sections
\* whose own meetings do not overlap, two or more courses selected, and the
\* filters disabled or asking for online delivery.
MaxRunSections == 3

RunSectionLists ==
    {l \in SectionLists(MaxRunSections) :
         /\ DistinctCrns(l)
         /\ \A i \in 1..Len(l) : l[i].crn # Crn30926}

RunFilterPool ==
    {f \in FilterPool : /\ f.deliveryMode \in {"any", "online"}
                        /\ f.timeOfDay = "any"
                        /\ f.scheduleCompactness = "any"
                        /\ f.daysOff = "any"
                        /\ f.isEnabled = (f.deliveryMode = "online")}

RunCourseIdSets == {ids \in SUBSET CourseIdPool : Cardinality(ids) >= 2}

InitRun ==
    /\ allSections \in RunSectionLists
    /\ selectedCourseIds \in RunCourseIdSets
    /\ filters \in RunFilterPool
    /\ genPc = "ready"
    /\ sectionsByCourse = <<>>
    /\ courseIds = <<>>
    /\ currentCombination = <<>>
    /\ callStack = <<>>
    /\ combinations = <<>>
    /\ scheduleResult = <<>>
    /\ ConflictIdle
    /\ ParseIdle
    /\ FilterIdle
    /\ ScheduleIdle

\* generateNonConflictingSchedules is a synchronous function: once called it
\* runs, statement after statement, until it returns.
SpecRun == InitRun /\ [][Next]_vars /\ WF_vars(Next)

----------------------------------------------------------------------------
(* The specification of the parser *)

\* The row of the example in the source, with a short course name.
BaseRow ==
    <<Web, CPRG, Code305, Monday, TimeField(13 * 60, 14 * 60 + 50), Online,
      Thursday, TimeField(13 * 60, 14 * 60 + 50), InPerson, Crn30922>>

\* Rows as fields: the valid row; the same CRN on another course; the same CRN
\* with each kind of defect; another CRN; a CRN of four digits; rows with two
\* defects; nine fields.
RowFields ==
    {BaseRow,
     [BaseRow EXCEPT ![2] = MATH, ![3] = Code201],
     [BaseRow EXCEPT ![1] = <<>>],
     [BaseRow EXCEPT ![8] = TimeField(10 * 60, 9 * 60)],
     [BaseRow EXCEPT ![9] = <<"O","n","s","i","t","e">>],
     [BaseRow EXCEPT ![10] = Crn30923],
     [BaseRow EXCEPT ![10] = <<"3","0","9","2">>],
     [BaseRow EXCEPT ![3] = <<"3","0">>, ![5] = TimeField(24 * 60, 24 * 60 + 30)],
     [BaseRow EXCEPT ![4] = <<"m","o","n","d","a","y">>, ![9] = <<"O","n","s","i","t","e">>],
     [BaseRow EXCEPT ![6] = <<"o","n","l","i","n","e">>, ![7] = <<"F","r","i">>],
     SubSeq(BaseRow, 2, 10)}

BlankLine == <<" ">>

RowLines == {join(f, ",") : f \in RowFields} \cup {BlankLine}

\* First lines: the expected header; the same with white space around it (a
\* line that ended "\r\n"); a header with the last column in lower case.
HeaderLines ==
    {expectedHeader,
     <<" ">> \o expectedHeader \o <<"\r">>,
     SubSeq(expectedHeader, 1, Len(expectedHeader) - 3) \o <<"c","r","n">>}

\* At most MaxRows lines follow the header line.
MaxRows == 2

RECURSIVE RowLists(_)
RowLists(n) ==
    IF n = 0 THEN {<<>>}
    ELSE RowLists(n - 1)
             \cup {Append(l, r) : l \in {x \in RowLists(n - 1) : Len(x) = n - 1},
                                  r \in RowLines}

\* The texts: an optional blank line, an optional header line, the rows.
CsvTexts ==
    {join(blank \o head \o rows, "\n") :
        blank \in {<<>>, <<BlankLine>>},
        head \in {<<>>} \cup {<<h>> : h \in HeaderLines},
        rows \in RowLists(MaxRows)}

InitParse ==
    /\ csvContent \in CsvTexts
    /\ parsePc = "ready"
    /\ lines = <<>>
    /\ lineIndex = 0
    /\ crnSet = {}
    /\ parsedCourses = <<>>
    /\ result = [isValid |-> TRUE, errors |-> <<>>, data |-> <<>>]
    /\ ConflictIdle
    /\ GenIdle
    /\ FilterIdle
    /\ ScheduleIdle

NextParse ==
    \/ HeaderMismatch
    \/ HeaderAccepted
    \/ ParseRow
    \/ ParseFinish

SpecParse == InitParse /\ [][NextParse]_vars

----------------------------------------------------------------------------
(* The specification of the filter predicate *)

Crn30927 == <<"3","0","9","2","7">>

\* Rows of six courses, one section each.  Monday holds meetings 09:00-10:00,
\* 10:59-11:59, 11:00-12:00 and 12:00-13:00, so that gaps of 59, 60 and 120
\* minutes and of none occur; Wednesday holds a gap of 121 minutes and Friday
\* one of 180; two sections meet at the weekend; the delivery types are mixed.
FilterRows ==
    {<<Web, CPRG, Code305, Monday, TimeField(9 * 60, 10 * 60), InPerson,
       Wednesday, TimeField(9 * 60, 10 * 60), InPerson, Crn30922>>,
     <<Web, MATH, Code201, Monday, TimeField(12 * 60, 13 * 60), Online,
       Friday, TimeField(9 * 60, 10 * 60), Online, Crn30923>>,
     <<Web, COMM, Code238, Tuesday, TimeField(13 * 60, 14 * 60), InPerson,
       Thursday, TimeField(13 * 60, 14 * 60), Online, Crn30924>>,
     <<Web, CPRG, Code201, Friday, TimeField(13 * 60, 14 * 60), Online,
       Saturday, TimeField(10 * 60, 11 * 60), InPerson, Crn30925>>,
     <<Web, MATH, Code238, Monday, TimeField(10 * 60 + 59, 11 * 60 + 59), InPerson,
       Wednesday, TimeField(12 * 60 + 1, 13 * 60), Online, Crn30926>>,
     <<Web, COMM, Code305, Monday, TimeField(11 * 60, 12 * 60), Online,
       Sunday, TimeField(18 * 60, 19 * 60), Online, Crn30927>>}

FilterSections == {CourseSectionOf(f) : f \in {g \in FilterRows : RowFieldsValid(g)}}

\* A combination holds at most MaxCombination sections.
MaxCombination == 3

\* The combinations the search can build from the sections: sections of
\* different courses, in any order, none conflicting with another.
RECURSIVE FilterCombinations(_)
FilterCombinations(n) ==
    IF n = 0 THEN {<<>>}
    ELSE FilterCombinations(n - 1)
             \cup UNION {{Append(c, sec) :
                             sec \in {t \in FilterSections :
                                         \A i \in 1..Len(c) :
                                             /\ CourseIdOf(c[i]) # CourseIdOf(t)
                                             /\ ~hasTimeConflict(t, c[i])}} :
                         c \in {x \in FilterCombinations(n - 1) : Len(x) = n - 1}}

\* The filters of a call: those of FilterPool, and the enabled filters with all
\* four preferences set.
FilterArguments ==
    FilterPool
        \cup [isEnabled : {TRUE},
              deliveryMode : {"online", "inPerson", "hybrid"},
              timeOfDay : {"morning", "afternoon", "evening"},
              scheduleCompactness : {"compact", "spread"},
              daysOff : {"oneDay", "twoDays"}]

\* meetsFilterCriteria(combination, filters)
CheckFilter ==
    /\ filterReturn = <<>>
    /\ parsePc = "idle" /\ genPc = "idle"
    /\ filterReturn' = <<meetsFilterCriteria(filterCall.combination, filterCall.filters)>>
    /\ UNCHANGED <<filterCall, conflictVars, parseVars, genVars, scheduleVars>>

InitFilter ==
    /\ filterCall \in [combination : FilterCombinations(MaxCombination),
                       filters : FilterArguments]
    /\ filterReturn = <<>>
    /\ ConflictIdle
    /\ ParseIdle
    /\ GenIdle
    /\ ScheduleIdle

NextFilter == CheckFilter

SpecFilter == InitFilter /\ [][NextFilter]_vars

----------------------------------------------------------------------------
(* The schedule context and the handlers of ConfigView that write it *)

\* scheduleResults?.combinations.length || 0
totalCombinations ==
    IF scheduleResults = <<>> THEN 0 ELSE Len(scheduleResults[1].combinations)

\* scheduleResults?.combinations[currentCombinationIndex] || null: an index
\* outside the array reads undefined, which || turns into null.
contextCurrentCombination ==
    IF scheduleResults = <<>> THEN <<>>
    ELSE IF currentCombinationIndex + 1 \in 1..Len(scheduleResults[1].combinations)
         THEN <<scheduleResults[1].combinations[currentCombinationIndex + 1]>>
         ELSE <<>>

\* The course identifiers of the uploaded file, one checkbox each.
uniqueCourseIds == {CourseIdOf(allSections[i]) : i \in 1..Len(allSections)}

\* toggleCourseSelection(courseIdentifier), between two calls of the generator:
\* ConfigView holds parsedCourses as allSections and selectedCourses as
\* selectedCourseIds.
toggleCourseSelection ==
    /\ genPc = "ready"
    /\ \E courseIdentifier \in uniqueCourseIds :
           selectedCourseIds' =
               IF courseIdentifier \in selectedCourseIds
               THEN selectedCourseIds \ {courseIdentifier}
               ELSE selectedCourseIds \cup {courseIdentifier}
    /\ scheduleResults' = <<>>
    /\ UNCHANGED <<allSections, filters, genPc, sectionsByCourse, courseIds,
                   currentCombination, callStack, combinations, scheduleResult,
                   currentCombinationIndex, conflictVars, parseVars, filterVars>>

\* handleGenerateSchedules after generateNonConflictingSchedules returned: the
\* results are stored when they hold a combination, null otherwise; the locals
\* of the call are gone.
handleGenerateSchedules ==
    /\ genPc = "done"
    /\ scheduleResults' =
           IF Len(scheduleResult[1].combinations) > 0 THEN scheduleResult ELSE <<>>
    /\ genPc' = "ready"
    /\ sectionsByCourse' = <<>>
    /\ courseIds' = <<>>
    /\ combinations' = <<>>
    /\ scheduleResult' = <<>>
    /\ UNCHANGED <<allSections, selectedCourseIds, filters, currentCombination, callStack,
                   currentCombinationIndex, conflictVars, parseVars, filterVars>>

\* nextCombination(), when its condition holds.
nextCombination ==
    /\ genPc = "ready"
    /\ scheduleResults # <<>>
    /\ currentCombinationIndex < Len(scheduleResults[1].combinations) - 1
    /\ currentCombinationIndex' = currentCombinationIndex + 1
    /\ UNCHANGED <<scheduleResults, conflictVars, parseVars, genVars, filterVars>>

\* previousCombination(), when its condition holds.
previousCombination ==
    /\ genPc = "ready"
    /\ currentCombinationIndex > 0
    /\ currentCombinationIndex' = currentCombinationIndex - 1
    /\ UNCHANGED <<scheduleResults, conflictVars, parseVars, genVars, filterVars>>

\* ConfigView after handleFileChange accepted a file: every course of the file
\* is selected and the schedule context is as it was mounted.
InitSchedule ==
    /\ allSections \in RunSectionLists
    /\ selectedCourseIds = uniqueCourseIds
    /\ filters \in RunFilterPool
    /\ genPc = "ready"
    /\ sectionsByCourse = <<>>
    /\ courseIds = <<>>
    /\ currentCombination = <<>>
    /\ callStack = <<>>
    /\ combinations = <<>>
    /\ scheduleResult = <<>>
    /\ ConflictIdle
    /\ ParseIdle
    /\ FilterIdle
    /\ ScheduleIdle

NextSchedule ==
    \/ toggleCourseSelection
    \/ GenerateStart
    \/ BaseCase
    \/ AddSection
    \/ RejectSection
    \/ Backtrack
    \/ SkipCourse
    \/ ReturnCall
    \/ SortAndReturn
    \/ handleGenerateSchedules
    \/ nextCombination
    \/ previousCombination

SpecSchedule == InitSchedule /\ [][NextSchedule]_vars

----------------------------------------------------------------------------
(* Claims about hasTimeConflict *)

\* Minutes since midnight of an HH:MM string, read digit by digit.
MinutesSinceMidnight(t) ==
    (DigitValue(t[1]) * 10 + DigitValue(t[2])) * 60
        + DigitValue(t[4]) * 10 + DigitValue(t[5])

StartOf(m) == MinutesSinceMidnight(m.time.startTime)
EndOf(m) == MinutesSinceMidnight(m.time.endTime)

\* C6: hasTimeConflict(A, B) is true exactly when a meeting m1 of A and a
\* meeting m2 of B are on the same day with max(start1, start2) < min(end1, end2)
\* in minutes since midnight.
C6_ConflictIffOverlap ==
    conflictChecked =>
        (conflict12 <=>
            \E m1 \in Range(section1.meetings), m2 \in Range(section2.meetings) :
                /\ m1.day = m2.day
                /\ Max(StartOf(m1), StartOf(m2)) < Min(EndOf(m1), EndOf(m2)))

\* C6 witness: a meeting of A ends exactly when a same-day meeting of B begins,
\* and the two sections are found not to conflict.
C6_Witness ==
    /\ conflictChecked
    /\ ~conflict12
    /\ \E m1 \in Range(section1.meetings), m2 \in Range(section2.meetings) :
           m1.day = m2.day /\ EndOf(m1) = StartOf(m2)

\* C7: hasTimeConflict is symmetric.
C7_ConflictSymmetric == conflictChecked => (conflict12 = conflict21)

\* C7 witness: two different sections that conflict, checked in both orders.
C7_Witness ==
    /\ conflictChecked
    /\ conflict12
    /\ section1.meetings # section2.meetings

\* C8 as stated: same-day meetings A of section1 and B of section2 with
\* A.end = B.start - 1 minute make the two sections conflict.
C8_Original ==
    conflictChecked =>
        ((\E m1 \in Range(section1.meetings), m2 \in Range(section2.meetings) :
              m1.day = m2.day /\ EndOf(m1) = StartOf(m2) - 1)
         => conflict12)

\* C8 amended: same-day meetings A of section1 and B of section2 with
\* A.end = B.start + 1 minute (A ends one minute after B begins) make the two
\* sections conflict.
C8_OneMinuteOverlapConflicts ==
    conflictChecked =>
        ((\E m1 \in Range(section1.meetings), m2 \in Range(section2.meetings) :
              m1.day = m2.day /\ EndOf(m1) = StartOf(m2) + 1)
         => conflict12)

\* C8 witness: such a pair of meetings exists and the conflict was reported.
C8_Witness ==
    /\ conflictChecked
    /\ conflict12
    /\ \E m1 \in Range(section1.meetings), m2 \in Range(section2.meetings) :
           m1.day = m2.day /\ EndOf(m1) = StartOf(m2) + 1

----------------------------------------------------------------------------
(* Claims about generateNonConflictingSchedules *)

Done == genPc = "done"

Returned == scheduleResult[1].combinations

\* Two sections overlap: two of their meetings share a day and a minute.
SectionsOverlap(a, b) ==
    \E m1 \in Range(a.meetings), m2 \in Range(b.meetings) :
        /\ m1.day = m2.day
        /\ Max(StartOf(m1), StartOf(m2)) < Min(EndOf(m1), EndOf(m2))

\* The sections of the selected courses, and the place of a section's course
\* in the order in which the selected courses first appear in the input.
SelectedSet ==
    {allSections[i] : i \in {k \in 1..Len(allSections) :
                                CourseIdOf(allSections[k]) \in selectedCourseIds}}

CourseRank(sec) ==
    CHOOSE i \in 1..Len(allSections) :
        /\ CourseIdOf(allSections[i]) = CourseIdOf(sec)
        /\ \A j \in 1..(i - 1) : CourseIdOf(allSections[j]) # CourseIdOf(sec)

OnePerCourse(S) == \A a, b \in S : a # b => CourseIdOf(a) # CourseIdOf(b)

ConflictFree(S) == \A a, b \in S : a # b => ~SectionsOverlap(a, b)

\* No section of a course that S omits can be added to S without conflict.
Maximal(S) ==
    \A sec \in SelectedSet :
        (\A t \in S : CourseIdOf(t) # CourseIdOf(sec))
            => \E t \in S : SectionsOverlap(sec, t)

\* Every section of a course that S omits conflicts with a section that S
\* holds of a course earlier in the traversal order.
MaximalInOrder(S) ==
    \A sec \in SelectedSet :
        (\A t \in S : CourseIdOf(t) # CourseIdOf(sec))
            => \E t \in S : CourseRank(t) < CourseRank(sec) /\ SectionsOverlap(sec, t)

\* The sections of S as a sequence, in traversal order of their courses.
RECURSIVE InOrder(_)
InOrder(S) ==
    IF S = {} THEN <<>>
    ELSE LET first == CHOOSE a \in S : \A b \in S : CourseRank(a) <= CourseRank(b)
         IN  <<first>> \o InOrder(S \ {first})

Selections == {S \in SUBSET SelectedSet : OnePerCourse(S) /\ ConflictFree(S)}

ReturnedSections == {Returned[k].sections : k \in 1..Len(Returned)}

\* C1: every returned combination is pairwise conflict-free: hasTimeConflict is
\* false of every two distinct sections of it, and no two of its sections
\* overlap.
C1_CombinationsConflictFree ==
    Done =>
        \A k \in 1..Len(Returned) :
            \A i, j \in 1..Len(Returned[k].sections) :
                i # j => /\ ~hasTimeConflict(Returned[k].sections[i], Returned[k].sections[j])
                         /\ ~SectionsOverlap(Returned[k].sections[i], Returned[k].sections[j])

\* C1 witness: two selected sections of different courses overlap, and a
\* combination of two or more sections is returned.
C1_Witness ==
    /\ Done
    /\ \E a, b \in SelectedSet : CourseIdOf(a) # CourseIdOf(b) /\ SectionsOverlap(a, b)
    /\ \E k \in 1..Len(Returned) : Len(Returned[k].sections) >= 2

\* C2: no returned combination holds two sections of one course identity, and
\* every section of it is of a selected course identity.
C2_OneSectionPerSelectedCourse ==
    Done =>
        \A k \in 1..Len(Returned) :
            LET secs == Returned[k].sections
            IN  /\ \A i, j \in 1..Len(secs) :
                       i # j => secs[i].subject \o secs[i].courseCode
                                    # secs[j].subject \o secs[j].courseCode
                /\ \A i \in 1..Len(secs) :
                       secs[i].subject \o secs[i].courseCode \in selectedCourseIds

\* C2 witness: the input holds two sections of one selected course that do not
\* overlap and a section of a course not selected, and a combination is returned.
C2_Witness ==
    /\ Done
    /\ \E a, b \in SelectedSet :
           a # b /\ CourseIdOf(a) = CourseIdOf(b) /\ ~SectionsOverlap(a, b)
    /\ \E i \in 1..Len(allSections) : CourseIdOf(allSections[i]) \notin selectedCourseIds
    /\ \E k \in 1..Len(Returned) : Returned[k].sections # <<>>

\* C3 as stated: with the filters disabled, the combinations returned are
\* exactly the conflict-free selections of at most one section per selected
\* course.
C3_Original ==
    (Done /\ ~filters.isEnabled) =>
        {Range(c) : c \in ReturnedSections} = Selections

\* C3 amended: with the filters disabled, whatever the other four fields, the
\* combinations returned are exactly the conflict-free selections of at most
\* one section per selected course that omit a course only when each of its
\* sections conflicts with a section chosen for an earlier course; each is
\* returned once, its sections in traversal order.
C3_DisabledReturnsEverySearchResult ==
    (Done /\ ~filters.isEnabled) =>
        /\ ReturnedSections = {InOrder(S) : S \in {T \in Selections : MaximalInOrder(T)}}
        /\ Cardinality(ReturnedSections) = Len(Returned)

\* C3 witness: the filters are disabled with a preference set, and two or more
\* combinations are returned.
C3_Witness ==
    /\ Done
    /\ ~filters.isEnabled
    /\ filters # defaultFilters
    /\ Len(Returned) >= 2

\* C4 as stated: every conflict-free selection to which no section of an
\* omitted course can be added, and which passes the filter, is returned.
C4_Original ==
    Done =>
        \A S \in Selections :
            (Maximal(S) /\ meetsFilterCriteria(InOrder(S), filters))
                => \E c \in ReturnedSections : Range(c) = S

\* C4 amended: every conflict-free selection that omits a course only when each
\* of its sections conflicts with a section chosen for a course earlier in the
\* traversal order, and which passes the filter, is returned.
C4_ReturnsEveryInOrderMaximal ==
    Done =>
        \A S \in Selections :
            (MaximalInOrder(S) /\ meetsFilterCriteria(InOrder(S), filters))
                => \E c \in ReturnedSections : Range(c) = S

\* C4 witness: the filters are enabled; a selection that omits a course is
\* returned, and another selection of the search fails the filter.
C4_Witness ==
    /\ Done
    /\ filters.isEnabled
    /\ \E k \in 1..Len(Returned) : Len(Returned[k].sections) < Len(courseIds)
    /\ \E S \in Selections :
           MaximalInOrder(S) /\ ~meetsFilterCriteria(InOrder(S), filters)

\* C5: a combination of more courses comes before one of fewer, whatever the
\* random comparisons among equal courseCounts answered.
C5_MoreCoursesFirst ==
    Done =>
        \A i, j \in 1..Len(Returned) :
            Returned[i].courseCount > Returned[j].courseCount => i < j

\* C5 witness: combinations of different courseCounts are returned, together
\* with two of equal courseCount.
C5_Witness ==
    /\ Done
    /\ \E i, j \in 1..Len(Returned) : Returned[i].courseCount > Returned[j].courseCount
    /\ \E i, j \in 1..Len(Returned) :
           i # j /\ Returned[i].courseCount = Returned[j].courseCount

----------------------------------------------------------------------------
(* Claims about parseCourseCsv *)

Parsed == parsePc = "done"

\* The lines of the text as written, and those that are not blank, trimmed.
RawLines == split(csvContent, "\n")

NonBlankLines ==
    LET raw == RawLines
        keep == {i \in 1..Len(raw) : \E k \in 1..Len(raw[i]) : ~IsSpace(raw[i][k])}
        Nth(n) == CHOOSE i \in keep : Cardinality({j \in keep : j < i}) = n - 1
    IN  [n \in 1..Cardinality(keep) |-> trim(raw[Nth(n)])]

HeaderOk(rows) == rows # <<>> /\ rows[1] = expectedHeader

HeaderRejected ==
    /\ result.isValid = FALSE
    /\ result.data = <<>>
    /\ Len(result.errors) = 1

\* C9 as stated: when the first line of the text differs from the expected
\* header, the result is invalid, with no data and exactly one error.
C9_Original == (Parsed /\ RawLines[1] # expectedHeader) => HeaderRejected

\* C9 amended: when the first non-blank line of the text, trimmed, differs from
\* the expected header, or every line is blank, the result is invalid, with no
\* data and exactly one error, whatever the rows after it hold.
C9_HeaderMismatchIsFatal ==
    (Parsed /\ ~HeaderOk(NonBlankLines))
        => /\ HeaderRejected
           /\ result.errors[1].message = "Invalid CSV header format"

\* C9 witness: the header is wrong and a row after it has a defect of its own.
C9_Witness ==
    /\ Parsed
    /\ HeaderRejected
    /\ LET rows == NonBlankLines
       IN  /\ Len(rows) >= 2
           /\ rows[1] # expectedHeader
           /\ \E i \in 2..Len(rows) : Len(split(rows[i], ",")) # 10

\* The data rows i and j, both of ten fields, carry the same CRN of five digits.
SameValidCrn(rows, i, j) ==
    LET fi == split(rows[i], ",")
        fj == split(rows[j], ",")
    IN  /\ Len(fi) = 10 /\ Len(fj) = 10
        /\ fi[10] = fj[10]
        /\ Len(fi[10]) = 5 /\ \A k \in 1..5 : IsDigit(fi[10][k])

\* Row i has its courseName, subject and courseCode.
HasRequiredFields(rows, i) ==
    LET f == split(rows[i], ",")
    IN  f[1] # <<>> /\ f[2] # <<>> /\ f[3] # <<>>

\* A "Duplicate CRN" error is reported, and data holds at most one section of
\* the CRN of row i.
DuplicateRejected(rows, i) ==
    /\ \E e \in 1..Len(result.errors) : result.errors[e].message = "Duplicate CRN"
    /\ result.data # <<>> =>
           Cardinality({k \in 1..Len(result.data[1]) :
                           result.data[1][k].crn = split(rows[i], ",")[10]}) <= 1

\* C10 as stated: two data rows with the same valid CRN give a "Duplicate CRN"
\* error and at most one of them in data, whatever other defects they have.
C10_Original ==
    Parsed =>
        LET rows == NonBlankLines
        IN  HeaderOk(rows) =>
                \A i, j \in 2..Len(rows) :
                    (i < j /\ SameValidCrn(rows, i, j)) => DuplicateRejected(rows, i)

\* C10 amended: two data rows with the same valid CRN, both with ten fields
\* and with their required fields present, give a "Duplicate CRN" error and at
\* most one of them in data, whatever later defects (course code, day, time,
\* type) either has.
C10_DuplicateCrnRejected ==
    Parsed =>
        LET rows == NonBlankLines
        IN  HeaderOk(rows) =>
                \A i, j \in 2..Len(rows) :
                    (/\ i < j /\ SameValidCrn(rows, i, j)
                     /\ HasRequiredFields(rows, i) /\ HasRequiredFields(rows, j))
                        => DuplicateRejected(rows, i)

\* C10 witness: the first of two such rows has a defect checked after its CRN,
\* and the duplicate is reported.
C10_Witness ==
    /\ Parsed
    /\ LET rows == NonBlankLines
       IN  /\ HeaderOk(rows)
           /\ \E i, j \in 2..Len(rows) :
                  /\ i < j /\ SameValidCrn(rows, i, j)
                  /\ HasRequiredFields(rows, i) /\ HasRequiredFields(rows, j)
                  /\ \E e \in 1..Len(result.errors) :
                         /\ result.errors[e].line = i
                         /\ result.errors[e].message # "Duplicate CRN"
                  /\ \E e \in 1..Len(result.errors) :
                         /\ result.errors[e].line = j
                         /\ result.errors[e].message = "Duplicate CRN"

\* The section a data row stands for, read off the text of the row: the ten
\* comma-separated fields, each time field HH:MM-HH:MM cut at its hyphen.
SectionOfLine(line) ==
    LET f == split(line, ",")
        MeetingOf(day, time, type) ==
            [day |-> day,
             time |-> [startTime |-> SubSeq(time, 1, 5), endTime |-> SubSeq(time, 7, 11)],
             type |-> type]
    IN  [courseName |-> f[1], subject |-> f[2], courseCode |-> f[3], crn |-> f[10],
         meetings |-> <<MeetingOf(f[4], f[5], f[6]), MeetingOf(f[7], f[8], f[9])>>]

\* C11: with a correct header, isValid is true exactly when no error was
\* recorded; data is non-null only when isValid is true, and then it holds one
\* section per data row in input order; when any row failed data is null, even
\* though other rows were valid.
C11_ValidIffNoErrorAndNoPartialData ==
    Parsed =>
        LET rows == NonBlankLines
        IN  HeaderOk(rows) =>
                /\ result.isValid <=> (result.errors = <<>>)
                /\ result.data # <<>> => result.isValid
                /\ result.isValid =>
                       result.data = <<[k \in 1..(Len(rows) - 1) |-> SectionOfLine(rows[k + 1])]>>
                /\ result.errors # <<>> => result.data = <<>>

\* C11 witness: one row was valid and another failed, and data is null.
C11_Witness ==
    /\ Parsed
    /\ HeaderOk(NonBlankLines)
    /\ parsedCourses # <<>>
    /\ result.errors # <<>>
    /\ result.data = <<>>
    /\ ~result.isValid

\* The place in the text, counted from 1, of its n-th non-blank line.
NonBlankIndex(n) ==
    LET raw == RawLines
        keep == {i \in 1..Len(raw) : \E k \in 1..Len(raw[i]) : ~IsSpace(raw[i][k])}
    IN  CHOOSE i \in keep : Cardinality({j \in keep : j < i}) = n - 1

\* C12 as stated: every row-level error names the 1-based line number, in the
\* input text, of the row it was raised for, whatever blank lines the text
\* holds.  The row an error of line number n was raised for is the n-th
\* non-blank line (the loop of parseCourseCsv runs over the non-blank lines).
C12_Original ==
    Parsed =>
        LET rows == NonBlankLines
        IN  HeaderOk(rows) =>
                \A e \in 1..Len(result.errors) :
                    result.errors[e].line = NonBlankIndex(result.errors[e].line)

\* Row n carries a CRN that an earlier data row recorded: an earlier row of ten
\* fields, with its required fields and a CRN of five digits, has the same CRN.
CrnSeenBefore(rows, n) ==
    \E m \in 2..(n - 1) :
        LET g == split(rows[m], ",")
        IN  /\ Len(g) = 10
            /\ g[1] # <<>> /\ g[2] # <<>> /\ g[3] # <<>>
            /\ IsDigits(g[10], 5)
            /\ g[10] = split(rows[n], ",")[10]

\* The first check row n fails, in the order field count, required fields,
\* duplicate CRN, CRN format, course code, first day, second day, first time,
\* second time, first type, second type; "" when it fails none.
FirstFailedCheck(rows, n) ==
    LET f == split(rows[n], ",")
    IN  CASE Len(f) # 10 -> "Invalid number of fields"
          [] Len(f) = 10 /\ (f[1] = <<>> \/ f[2] = <<>> \/ f[3] = <<>> \/ f[10] = <<>>)
                -> "Missing required fields"
          [] OTHER ->
                IF CrnSeenBefore(rows, n) THEN "Duplicate CRN"
                ELSE IF ~IsDigits(f[10], 5) THEN "Invalid CRN format"
                ELSE IF ~IsDigits(f[3], 3) THEN "Invalid course code format"
                ELSE IF f[4] \notin Range(validDays) THEN "Invalid first meeting day"
                ELSE IF f[7] \notin Range(validDays) THEN "Invalid second meeting day"
                ELSE IF ~isValidTimeFormat(f[5]) THEN "Invalid first meeting time format"
                ELSE IF ~isValidTimeFormat(f[8]) THEN "Invalid second meeting time format"
                ELSE IF f[6] \notin {Online, InPerson} THEN "Invalid first meeting type"
                ELSE IF f[9] \notin {Online, InPerson} THEN "Invalid second meeting type"
                ELSE ""

\* C13: with a correct header a failing row never stops the parse: every data
\* row is validated, each failing row gives exactly one error, that of the first
\* check it fails, the errors come in the order of the rows, and the number of
\* errors is the number of failing rows.
C13_OneErrorPerFailingRow ==
    Parsed =>
        LET rows == NonBlankLines
            failing == {n \in 2..Len(rows) : FirstFailedCheck(rows, n) # ""}
        IN  HeaderOk(rows) =>
                /\ Len(result.errors) = Cardinality(failing)
                /\ Len(parsedCourses) = (Len(rows) - 1) - Cardinality(failing)
                /\ \A n \in failing :
                       \E e \in 1..Len(result.errors) :
                           /\ result.errors[e].line = n
                           /\ result.errors[e].message = FirstFailedCheck(rows, n)
                /\ \A d, e \in 1..Len(result.errors) :
                       d < e => result.errors[d].line < result.errors[e].line

\* C13 witness: a row fails one check and the row after it fails another.
C13_Witness ==
    /\ Parsed
    /\ HeaderOk(NonBlankLines)
    /\ Len(result.errors) = 2
    /\ result.errors[1].line = 2
    /\ result.errors[2].line = 3
    /\ result.errors[1].message # result.errors[2].message

\* t is HH:MM with the hour in 00-23 and the minute in 00-59.
IsHourMinute(t) ==
    /\ Len(t) = 5
    /\ t[3] = ":"
    /\ \A k \in {1, 2, 4, 5} : IsDigit(t[k])
    /\ DigitValue(t[1]) * 10 + DigitValue(t[2]) <= 23
    /\ DigitValue(t[4]) * 10 + DigitValue(t[5]) <= 59

\* The data-model invariants of one section.
SectionWellFormed(sec) ==
    /\ Len(sec.crn) = 5 /\ \A k \in 1..5 : IsDigit(sec.crn[k])
    /\ Len(sec.courseCode) = 3 /\ \A k \in 1..3 : IsDigit(sec.courseCode[k])
    /\ sec.subject # <<>>
    /\ sec.courseName # <<>>
    /\ Len(sec.meetings) = 2
    /\ \A m \in Range(sec.meetings) :
           /\ m.day \in {Monday, Tuesday, Wednesday, Thursday, Friday, Saturday, Sunday}
           /\ m.type \in {Online, InPerson}
           /\ IsHourMinute(m.time.startTime)
           /\ IsHourMinute(m.time.endTime)
           /\ MinutesSinceMidnight(m.time.endTime) > MinutesSinceMidnight(m.time.startTime)

\* C14: whenever the result is valid, every section of data satisfies the
\* data-model invariants, and no two sections of data share a CRN.
C14_ValidDataWellFormed ==
    (Parsed /\ result.isValid) =>
        /\ result.data # <<>>
        /\ \A k \in 1..Len(result.data[1]) : SectionWellFormed(result.data[1][k])
        /\ \A j, k \in 1..Len(result.data[1]) :
               j # k => result.data[1][j].crn # result.data[1][k].crn

\* C14 witness: a valid result with two sections.
C14_Witness ==
    /\ Parsed
    /\ result.isValid
    /\ result.data # <<>>
    /\ Len(result.data[1]) = 2

----------------------------------------------------------------------------
(* Claims about meetsFilterCriteria *)

FilterCalled == filterReturn # <<>>

Passed == filterReturn[1]

\* The filters are enabled and of the four preferences only k may be set.
OthersAny(k) ==
    /\ filterCall.filters.isEnabled
    /\ \A other \in {"deliveryMode", "timeOfDay", "scheduleCompactness", "daysOff"} \ {k} :
           filterCall.filters[other] = "any"

\* The meetings of the combination, and the days on which it meets.
CallMeetings ==
    {filterCall.combination[i].meetings[j] :
        i \in 1..Len(filterCall.combination), j \in 1..2}

MeetingDays == {m.day : m \in CallMeetings}

WeekDays == {Monday, Tuesday, Wednesday, Thursday, Friday}

\* C15 as stated: in the days-off check, daysOff is 5 minus the number of
\* distinct Monday-Friday days on which the combination meets; Saturday and
\* Sunday meetings do not reduce it ('oneDay' asks for 1, 'twoDays' for 2).
C15_Original ==
    (FilterCalled /\ OthersAny("daysOff") /\ filterCall.filters.daysOff # "any") =>
        LET daysOff == 5 - Cardinality(MeetingDays \cap WeekDays)
        IN  Passed <=> (daysOff = IF filterCall.filters.daysOff = "oneDay" THEN 1 ELSE 2)

\* C16: for a combination that meets only on Monday-Friday, with the filters
\* enabled and every other preference 'any': 'oneDay' accepts it exactly when
\* it meets on 4 distinct days, 'twoDays' exactly when it meets on 3, and 'any'
\* always.
C16_DaysOffExact ==
    (FilterCalled /\ OthersAny("daysOff") /\ MeetingDays \subseteq WeekDays) =>
        (Passed <=>
            CASE filterCall.filters.daysOff = "oneDay" -> Cardinality(MeetingDays) = 4
              [] filterCall.filters.daysOff = "twoDays" -> Cardinality(MeetingDays) = 3
              [] OTHER -> TRUE)

\* C16 witness: a combination that meets only on Monday, Wednesday and Friday
\* passes 'twoDays'.
C16_Witness ==
    /\ FilterCalled
    /\ OthersAny("daysOff")
    /\ MeetingDays = {Monday, Wednesday, Friday}
    /\ filterCall.filters.daysOff = "twoDays"
    /\ Passed

\* The meetings of the combination by position, and how many are of a type.
MeetingPositions ==
    {<<i, j>> : i \in 1..Len(filterCall.combination), j \in 1..2}

TypeCount(type) ==
    Cardinality({p \in MeetingPositions :
                    filterCall.combination[p[1]].meetings[p[2]].type = type})

\* What the delivery-mode preference asks of T meetings, O of them Online and
\* P In-person.
DeliveryModeAccepts ==
    LET T == Cardinality(MeetingPositions)
        O == TypeCount(Online)
        P == TypeCount(InPerson)
    IN  CASE filterCall.filters.deliveryMode = "online" -> 2 * O >= T
          [] filterCall.filters.deliveryMode = "inPerson" -> 2 * P >= T
          [] filterCall.filters.deliveryMode = "hybrid" -> O >= 1 /\ P >= 1
          [] OTHER -> TRUE

\* C17: with the filters enabled the delivery-mode check accepts a combination
\* for 'online' iff 2*O >= T, for 'inPerson' iff 2*P >= T, for 'hybrid' iff
\* O >= 1 and P >= 1, for 'any' always: it decides the result when the other
\* preferences are 'any', and no combination it rejects is accepted.
C17_DeliveryMode ==
    FilterCalled =>
        /\ OthersAny("deliveryMode") => (Passed <=> DeliveryModeAccepts)
        /\ (filterCall.filters.isEnabled /\ Passed) => DeliveryModeAccepts

\* C17 witness: exactly half of the meetings of a combination are Online and
\* 'online' accepts it.
C17_Witness ==
    /\ FilterCalled
    /\ OthersAny("deliveryMode")
    /\ filterCall.filters.deliveryMode = "online"
    /\ filterCall.combination # <<>>
    /\ 2 * TypeCount(Online) = Cardinality(MeetingPositions)
    /\ Passed

MeetingAt(p) == filterCall.combination[p[1]].meetings[p[2]]

PositionsOn(day) == {p \in MeetingPositions : MeetingAt(p).day = day}

\* The days with at least two meetings.
MultiDays == {d \in MeetingDays : Cardinality(PositionsOn(d)) >= 2}

\* Meeting q follows meeting p on their day: it starts later and no meeting of
\* the day starts between them.
FollowsOnDay(p, q) ==
    /\ MeetingAt(p).day = MeetingAt(q).day
    /\ StartOf(MeetingAt(p)) < StartOf(MeetingAt(q))
    /\ ~\E r \in PositionsOn(MeetingAt(p).day) :
           /\ StartOf(MeetingAt(p)) < StartOf(MeetingAt(r))
           /\ StartOf(MeetingAt(r)) < StartOf(MeetingAt(q))

\* The gaps of a day, in minutes: from a meeting's end to the next one's start.
GapsOn(day) ==
    {StartOf(MeetingAt(pq[2])) - EndOf(MeetingAt(pq[1])) :
        pq \in {x \in PositionsOn(day) \X PositionsOn(day) : FollowsOnDay(x[1], x[2])}}

CompactValidDays ==
    {d \in MultiDays :
        IF filterCall.filters.scheduleCompactness = "compact"
        THEN \A gap \in GapsOn(d) : gap <= 120
        ELSE \A gap \in GapsOn(d) : gap >= 60}

CompactnessAccepts ==
    \/ filterCall.filters.scheduleCompactness = "any"
    \/ MultiDays = {}
    \/ 2 * Cardinality(CompactValidDays) >= Cardinality(MultiDays)

\* C18: with the filters enabled, a day with at least 2 meetings is valid for
\* 'compact' iff every gap between successive meetings (by start time) is at
\* most 120 minutes and for 'spread' iff every gap is at least 60 minutes; the
\* check passes iff no day has 2 or more meetings or 2 * validDays >= multiDays.
C18_Compactness ==
    FilterCalled =>
        /\ OthersAny("scheduleCompactness") => (Passed <=> CompactnessAccepts)
        /\ (filterCall.filters.isEnabled /\ Passed) => CompactnessAccepts

\* C18 witness: two days hold two meetings each, one of them with a gap of more
\* than 120 minutes, and 'compact' accepts the combination.
C18_Witness ==
    /\ FilterCalled
    /\ OthersAny("scheduleCompactness")
    /\ filterCall.filters.scheduleCompactness = "compact"
    /\ Cardinality(MultiDays) = 2
    /\ Cardinality(CompactValidDays) = 1
    /\ Passed

----------------------------------------------------------------------------
(* Claims about the meetings of a returned combination *)

\* The meetings of a list of sections, by position.
PositionsIn(sections) == {<<i, j>> : i \in 1..Len(sections), j \in 1..2}

\* Two meetings overlap: they share a day and a minute.
MeetingsClash(m1, m2) ==
    /\ m1.day = m2.day
    /\ Max(StartOf(m1), StartOf(m2)) < Min(EndOf(m1), EndOf(m2))

\* C19 as stated: in every returned combination no two distinct meetings
\* overlap in time on the same weekday, whether they belong to different
\* sections or to the same section.
C19_Original ==
    Done =>
        \A c \in 1..Len(Returned) :
            \A p, q \in PositionsIn(Returned[c].sections) :
                p # q => ~MeetingsClash(Returned[c].sections[p[1]].meetings[p[2]],
                                       Returned[c].sections[q[1]].meetings[q[2]])

----------------------------------------------------------------------------
(* Claims about the branches of buildCombinations *)

Searching == genPc = "search" /\ callStack # <<>>

\* The place of a section's course in the traversal order, from 1.
PlaceOf(sec) ==
    Cardinality({CourseRank(t) : t \in {u \in SelectedSet : CourseRank(u) <= CourseRank(sec)}})

\* The branch holds no section of the course of sec.
Omitted(sec) ==
    \A i \in 1..Len(currentCombination) :
        CourseIdOf(currentCombination[i]) # CourseIdOf(sec)

\* Every section of the course of sec conflicts with a section the branch
\* holds of an earlier course.
Unsatisfiable(sec) ==
    \A other \in {u \in SelectedSet : CourseIdOf(u) = CourseIdOf(sec)} :
        \E i \in 1..Len(currentCombination) :
            /\ CourseRank(currentCombination[i]) < CourseRank(other)
            /\ SectionsOverlap(other, currentCombination[i])

\* The courses before the one the newest call is at are omitted exactly when
\* unsatisfiable.
OmittedIffUnsatisfiable ==
    Searching =>
        \A sec \in SelectedSet :
            PlaceOf(sec) <= TopCall.courseIndex => (Omitted(sec) <=> Unsatisfiable(sec))

\* The loop of the newest call has passed every section of its course.
LoopEnded ==
    /\ Searching
    /\ TopCall.pc = "body"
    /\ TopCall.courseIndex < Len(courseIds)
    /\ TopCall.sectionIndex >
           Cardinality({u \in SelectedSet :
                           PlaceOf(u) = TopCall.courseIndex + 1})

\* After a loop that added no section the search calls itself for the next
\* course with the combination unchanged; after a loop that added one it
\* returns, and the branch that skips the course is not explored.
SkipStep ==
    /\ (LoopEnded /\ ~TopCall.addedSection) =>
           /\ Len(callStack') = Len(callStack) + 1
           /\ callStack'[Len(callStack')].courseIndex = TopCall.courseIndex + 1
           /\ currentCombination' = currentCombination
    /\ (LoopEnded /\ TopCall.addedSection) =>
           /\ callStack' = SubSeq(callStack, 1, Len(callStack) - 1)
           /\ currentCombination' = currentCombination

\* C20: along any branch a course is omitted if and only if every one of its
\* sections conflicts with a section already chosen for an earlier course; when
\* a section fits, the branch that skips the course is never explored, and when
\* none does, the branch goes on to the next course with the combination
\* unchanged instead of being discarded.
C20_SkipPolicy == []OmittedIffUnsatisfiable /\ [][SkipStep]_vars

\* C20 witness: a course was skipped below a combination that holds a section,
\* and the search is at the next course.
C20_Witness ==
    /\ Searching
    /\ currentCombination # <<>>
    /\ \E k \in 1..(Len(callStack) - 1) :
           /\ callStack[k].pc = "skipped"
           /\ callStack[k + 1].courseIndex = callStack[k].courseIndex + 1

----------------------------------------------------------------------------
(* Claims about the working combination *)

\* The sections pushed and not yet popped by the calls of a stack: a call that
\* waits for the call it made after a push holds the section at its loop
\* position.
RECURSIVE PendingPushes(_)
PendingPushes(stack) ==
    IF stack = <<>> THEN <<>>
    ELSE LET call == stack[Len(stack)]
             below == PendingPushes(SubSeq(stack, 1, Len(stack) - 1))
         IN  IF call.pc = "called"
             THEN Append(below,
                         CourseSections(sectionsByCourse,
                                        courseIds[call.courseIndex + 1])[call.sectionIndex])
             ELSE below

\* A call at course index i holds at most i sections, of distinct courses among
\* the first i courses, in traversal order.
WithinFirstCourses(sections, i) ==
    /\ Len(sections) <= i
    /\ \A k \in 1..Len(sections) :
           /\ sections[k] \in SelectedSet
           /\ PlaceOf(sections[k]) <= i
    /\ \A j, k \in 1..Len(sections) :
           j < k => PlaceOf(sections[j]) < PlaceOf(sections[k])

\* The working combination is what the calls in progress have pushed, and each
\* call was entered with a combination within its first courses.
CombinationFollowsStack ==
    Searching =>
        /\ currentCombination = PendingPushes(callStack)
        /\ \A k \in 1..Len(callStack) :
               WithinFirstCourses(PendingPushes(SubSeq(callStack, 1, k - 1)),
                                  callStack[k].courseIndex)

\* A step of the search leaves the calls below the newest one as they are (the
\* caller of a new call only moves to waiting for it), and a return leaves the
\* working combination as it is, equal to what the calls below had pushed when
\* the returning call was entered.
RollbackStep ==
    (Searching /\ genPc' = "search") =>
        /\ \A k \in 1..(Len(callStack) - 1) :
               k <= Len(callStack') => callStack'[k] = callStack[k]
        /\ Len(callStack') > Len(callStack) =>
               /\ Len(callStack') = Len(callStack) + 1
               /\ callStack'[Len(callStack)] =
                      [TopCall EXCEPT !.pc = callStack'[Len(callStack)].pc]
               /\ callStack'[Len(callStack)].pc \in {"called", "skipped"}
        /\ Len(callStack') < Len(callStack) =>
               /\ callStack' = SubSeq(callStack, 1, Len(callStack) - 1)
               /\ currentCombination' = currentCombination
               /\ currentCombination =
                      PendingPushes(SubSeq(callStack, 1, Len(callStack) - 1))

\* C21: whenever a call of buildCombinations returns, the working combination
\* holds exactly the sections it held when the call was entered (every push is
\* matched by a pop); at every call with course index i it holds at most i
\* sections, one each from distinct courses among the first i, in traversal
\* order.
C21_Rollback == []CombinationFollowsStack /\ [][RollbackStep]_vars

\* C21 witness: a call that pushed a section, called itself and popped is about
\* to return, below a combination that holds a section.
C21_Witness ==
    /\ Searching
    /\ TopCall.pc = "body"
    /\ TopCall.addedSection
    /\ TopCall.courseIndex >= 1
    /\ TopCall.courseIndex < Len(courseIds)
    /\ TopCall.sectionIndex > Len(TopCourseSections)
    /\ currentCombination # <<>>

\* How many times a combination occurs in a sequence of combinations.
Occurrences(combination, list) ==
    Cardinality({k \in 1..Len(list) : list[k] = combination})

\* Every recorded combination counts the sections it holds.
CourseCountIsLength ==
    \A k \in 1..Len(combinations) :
        combinations[k].courseCount = Len(combinations[k].sections)

\* A step of the generator keeps every combination recorded so far as it was
\* recorded, at its place while the search runs and at some place after the
\* final sort, and changes neither allSections nor selectedCourseIds.
RecordedStep ==
    /\ genPc # "ready" =>
           /\ allSections' = allSections
           /\ selectedCourseIds' = selectedCourseIds
    /\ (Searching /\ genPc' = "search") =>
           /\ Len(combinations') >= Len(combinations)
           /\ \A k \in 1..Len(combinations) : combinations'[k] = combinations[k]
    /\ (Searching /\ genPc' = "done") =>
           /\ Len(combinations') = Len(combinations)
           /\ \A k \in 1..Len(combinations) :
                  Occurrences(combinations[k], combinations') =
                      Occurrences(combinations[k], combinations)

\* C22: a combination recorded at a base case is a copy of the working
\* combination: its sections and its courseCount, the length of its sections,
\* are not changed by the later pushes and pops of the search, and the search
\* changes neither allSections, with the sections in it, nor selectedCourseIds.
C22_RecordedCopy == []CourseCountIsLength /\ [][RecordedStep]_vars

\* C22 witness: a combination that holds a section was recorded and the search
\* has since pushed another section onto a shorter working combination.
C22_Witness ==
    /\ Searching
    /\ combinations # <<>>
    /\ combinations[1].sections # <<>>
    /\ TopCall.pc = "body"
    /\ TopCall.courseIndex >= 1
    /\ currentCombination # <<>>
    /\ currentCombination # combinations[Len(combinations)].sections
    /\ \E k \in 1..Len(callStack) : callStack[k].pc = "called" /\ callStack[k].addedSection

\* The sections of selected courses of which a combination holds no section.
OmittedSections(sections) ==
    {sec \in SelectedSet :
         \A k \in 1..Len(sections) : CourseIdOf(sections[k]) # CourseIdOf(sec)}

\* C23: every returned combination is maximal: each section of a selected
\* course absent from it conflicts with a section of the combination, so no
\* omitted course could be added without conflict.
C23_ReturnedMaximal ==
    Done =>
        \A k \in 1..Len(Returned) :
            \A sec \in OmittedSections(Returned[k].sections) :
                /\ hasConflictWithCombination(sec, Returned[k].sections)
                /\ \E i \in 1..Len(Returned[k].sections) :
                       SectionsOverlap(sec, Returned[k].sections[i])

\* C23 witness: a returned combination omits a selected course that has
\* sections, and holds a section of a course later in the traversal order.
C23_Witness ==
    /\ Done
    /\ \E k \in 1..Len(Returned) :
           \E sec \in OmittedSections(Returned[k].sections) :
               \E i \in 1..Len(Returned[k].sections) :
                   CourseRank(sec) < CourseRank(Returned[k].sections[i])

\* The product of the numbers of sections of the courses from place k on.
RECURSIVE SectionCountProduct(_)
SectionCountProduct(k) ==
    IF k > Len(courseIds) THEN 1
    ELSE Len(CourseSections(sectionsByCourse, courseIds[k])) * SectionCountProduct(k + 1)

DistinctSections ==
    \A i, j \in 1..Len(allSections) : i # j => allSections[i] # allSections[j]

\* The courses of the search are the selected courses that have a section.
CoursesAreSelectedWithSections ==
    Range(courseIds) = {CourseIdOf(sec) : sec \in SelectedSet}

\* The returned combinations number at most the product of the section counts,
\* and no two hold the same sequence of sections when the input sections are
\* distinct.
BoundedAndDistinct ==
    Done =>
        /\ CoursesAreSelectedWithSections
        /\ Len(Returned) <= SectionCountProduct(1)
        /\ scheduleResult[1].stats.totalCombinations = Len(Returned)
        /\ DistinctSections =>
               \A i, j \in 1..Len(Returned) :
                   i # j => Returned[i].sections # Returned[j].sections

\* C24: generateNonConflictingSchedules terminates for every input; it returns
\* at most as many combinations as the product, over the selected courses that
\* have sections, of their numbers of sections, and no two returned
\* combinations hold the same sequence of sections when the input sections are
\* distinct.
C24_TerminatesBounded == <>Done /\ []BoundedAndDistinct

\* C24 witness: the call returned as many combinations as the product allows,
\* more than one, for two or more courses.
C24_Witness ==
    /\ Done
    /\ Len(courseIds) >= 2
    /\ SectionCountProduct(1) >= 2
    /\ Len(Returned) = SectionCountProduct(1)

\* The first course in traversal order: the course of the first section of the
\* input that is of a selected course.
FirstSelectedCourse ==
    LET first == CHOOSE i \in 1..Len(allSections) :
                     /\ CourseIdOf(allSections[i]) \in selectedCourseIds
                     /\ \A j \in 1..(i - 1) :
                            CourseIdOf(allSections[j]) \notin selectedCourseIds
    IN  CourseIdOf(allSections[first])

\* C25: with filters.isEnabled false the result is never empty:
\* stats.totalCombinations is at least 1; when no selected course has a section
\* exactly one combination is returned, the empty one with courseCount 0; and
\* when some selected course has sections, every returned combination holds a
\* section of the first course in traversal order.
C25_DisabledNeverEmpty ==
    (Done /\ ~filters.isEnabled) =>
        /\ scheduleResult[1].stats.totalCombinations >= 1
        /\ Len(Returned) >= 1
        /\ SelectedSet = {} =>
               Returned = <<[sections |-> <<>>, courseCount |-> 0]>>
        /\ SelectedSet # {} =>
               \A k \in 1..Len(Returned) :
                   \E i \in 1..Len(Returned[k].sections) :
                       CourseIdOf(Returned[k].sections[i]) = FirstSelectedCourse

\* C25 witness: the filters are disabled, a course other than the first is
\* omitted by a returned combination, and each combination holds a section of
\* the first course.
C25_Witness ==
    /\ Done
    /\ ~filters.isEnabled
    /\ SelectedSet # {}
    /\ \E k \in 1..Len(Returned) : OmittedSections(Returned[k].sections) # {}
    /\ \A k \in 1..Len(Returned) :
           Returned[k].sections # <<>>
           /\ CourseIdOf(Returned[k].sections[1]) = FirstSelectedCourse

\* C25 witness of the empty case: no selected course has a section, though the
\* input holds sections and courses are selected, and the empty combination is
\* returned.
C25_WitnessEmpty ==
    /\ Done
    /\ ~filters.isEnabled
    /\ allSections # <<>>
    /\ selectedCourseIds # {}
    /\ SelectedSet = {}
    /\ Len(Returned) = 1

----------------------------------------------------------------------------
(* Claims about the schedule context *)

====
